---- MODULE Spec2Model ----
(***************************************************************************)
(* The forward proxy of hidemysearch: the /api/proxy handler of           *)
(* registerRoutes (upstream fetch, header relay, content-type branch) and *)
(* its regex-based HTML rewriter.  Text is modelled as TLA+ strings, one   *)
(* character at a time, so every regular expression of the source is an    *)
(* explicit matcher and encodeURIComponent is a real encoding.             *)
(***************************************************************************)
EXTENDS Integers, Sequences, FiniteSets, TLC

(***************************************************************************)
(* Strings.                                                                *)
(***************************************************************************)
Char(s, i) == IF i >= 1 /\ i <= Len(s) THEN SubSeq(s, i, i) ELSE ""

From(s, i) == SubSeq(s, i, Len(s))

\* String.prototype.startsWith
StartsWith(s, p) == Len(s) >= Len(p) /\ SubSeq(s, 1, Len(p)) = p

\* the literal p stands in s at position i
HasAt(s, i, p) == i >= 1 /\ i + Len(p) - 1 <= Len(s) /\ SubSeq(s, i, i + Len(p) - 1) = p

LowerOf ==
  [c \in {"A", "B", "C", "D", "E", "F", "G", "H", "I", "J", "K", "L", "M", "N", "O", "P",
           "Q", "R", "S", "T", "U", "V", "W", "X", "Y", "Z"} |->
     CASE c = "A" -> "a" [] c = "B" -> "b" [] c = "C" -> "c" [] c = "D" -> "d"
       [] c = "E" -> "e" [] c = "F" -> "f" [] c = "G" -> "g" [] c = "H" -> "h"
       [] c = "I" -> "i" [] c = "J" -> "j" [] c = "K" -> "k" [] c = "L" -> "l"
       [] c = "M" -> "m" [] c = "N" -> "n" [] c = "O" -> "o" [] c = "P" -> "p"
       [] c = "Q" -> "q" [] c = "R" -> "r" [] c = "S" -> "s" [] c = "T" -> "t"
       [] c = "U" -> "u" [] c = "V" -> "v" [] c = "W" -> "w" [] c = "X" -> "x"
       [] c = "Y" -> "y" [] c = "Z" -> "z"]

LowerChar(c) == IF c \in DOMAIN LowerOf THEN LowerOf[c] ELSE c

\* F applied to the value of x: x is evaluated once, whatever use F makes of it
Let(x, F(_)) == CHOOSE r \in {F(v) : v \in {x}} : TRUE

\* the least element of a non-empty set of integers
Min(S) == CHOOSE x \in S : \A y \in S : x <= y

Max(S) == CHOOSE x \in S : \A y \in S : y <= x

\* f[lo] \o ... \o f[hi] for a function f from positions to strings, by halving
\* (the recursion depth stays logarithmic in the length of the text)
RECURSIVE ConcatRange(_, _, _)
ConcatRange(f, lo, hi) ==
  IF lo > hi THEN ""
  ELSE IF lo = hi THEN f[lo]
  ELSE LET mid == (lo + hi) \div 2
       IN ConcatRange(f, lo, mid) \o ConcatRange(f, mid + 1, hi)

ToLowerCase(s) == ConcatRange([k \in 1..Len(s) |-> LowerChar(Char(s, k))], 1, Len(s))

\* the literal p (given in lower case) stands in s at i, letter case ignored
\* (the i flag of a regular expression)
HasAtCI(s, i, p) ==
  /\ i >= 1
  /\ i + Len(p) - 1 <= Len(s)
  /\ \A k \in 1..Len(p) : LowerChar(Char(s, i + k - 1)) = Char(p, k)

\* first position >= i of s holding a character of stops, Len(s) + 1 if none:
\* where a greedy negated class [^...]* starting at i ends
SkipNot(s, i, stops) ==
  LET hits == {k \in i..Len(s) : Char(s, k) \in stops}
  IN IF hits = {} THEN Len(s) + 1 ELSE Min(hits)

\* first position >= i of s where the literal p stands, 0 if none
IndexOf(s, p, i) ==
  LET hits == {k \in i..Len(s) : HasAt(s, k, p)}
  IN IF hits = {} THEN 0 ELSE Min(hits)

\* String.prototype.includes
Includes(s, p) == IndexOf(s, p, 1) > 0

Quotes == {"\"", "'"}

WhiteSpace == {" ", "\t", "\n"}

\* String.prototype.trim
RECURSIVE TrimStart(_)
TrimStart(s) == IF s /= "" /\ Head(s) \in WhiteSpace THEN TrimStart(Tail(s)) ELSE s

RECURSIVE TrimEnd(_)
TrimEnd(s) ==
  IF s /= "" /\ Char(s, Len(s)) \in WhiteSpace THEN TrimEnd(SubSeq(s, 1, Len(s) - 1)) ELSE s

Trim(s) == TrimEnd(TrimStart(s))

\* String.prototype.split(sep) for a one-character separator: a sequence of strings
RECURSIVE Split(_, _)
Split(s, sep) ==
  LET k == SkipNot(s, 1, {sep})
  IN IF k > Len(s) THEN <<s>>
     ELSE <<SubSeq(s, 1, k - 1)>> \o Split(From(s, k + 1), sep)

\* Array.prototype.join
RECURSIVE Join(_, _)
Join(parts, sep) ==
  IF Len(parts) = 0 THEN ""
  ELSE IF Len(parts) = 1 THEN parts[1]
  ELSE parts[1] \o sep \o Join(Tail(parts), sep)

\* String.prototype.split(/\s+/): the pieces between maximal runs of white space
RECURSIVE SplitWs(_)
SplitWs(s) ==
  LET k == SkipNot(s, 1, WhiteSpace)
  IN IF k > Len(s) THEN <<s>>
     ELSE <<SubSeq(s, 1, k - 1)>> \o SplitWs(TrimStart(From(s, k)))

(***************************************************************************)
(* encodeURIComponent / decodeURIComponent over printable ASCII.           *)
(***************************************************************************)
\* the printable ASCII characters encodeURIComponent escapes: everything but
\* A-Z a-z 0-9 - _ . ! ~ * ' ( ) (the backquote, which no input here contains, is
\* left out)
EscapedChars ==
  {" ", "\"", "#", "$", "%", "&", "+", ",", "/", ":", ";", "<", "=", ">", "?", "@",
   "[", "\\", "]", "^", "{", "|", "}", "\t", "\n"}

HexOf ==
  [c \in EscapedChars |->
     CASE c = " " -> "20" [] c = "\"" -> "22" [] c = "#" -> "23" [] c = "$" -> "24"
       [] c = "%" -> "25" [] c = "&" -> "26" [] c = "+" -> "2B" [] c = "," -> "2C"
       [] c = "/" -> "2F" [] c = ":" -> "3A" [] c = ";" -> "3B" [] c = "<" -> "3C"
       [] c = "=" -> "3D" [] c = ">" -> "3E" [] c = "?" -> "3F" [] c = "@" -> "40"
       [] c = "[" -> "5B" [] c = "\\" -> "5C" [] c = "]" -> "5D" [] c = "^" -> "5E"
       [] c = "{" -> "7B" [] c = "|" -> "7C" [] c = "}" -> "7D"
       [] c = "\t" -> "09" [] c = "\n" -> "0A"]

EncodeChar(c) == IF c \in EscapedChars THEN "%" \o HexOf[c] ELSE c

encodeURIComponent(s) ==
  ConcatRange([k \in 1..Len(s) |-> EncodeChar(Char(s, k))], 1, Len(s))

\* %XY is an escape of the table above
IsEscapeAt(s, k) ==
  Char(s, k) = "%" /\ k + 2 <= Len(s) /\ \E c \in EscapedChars : HexOf[c] = SubSeq(s, k + 1, k + 2)

\* one decoding step: every escape %XY becomes the character it stands for; an
\* escape outside the table (never produced by encodeURIComponent on this alphabet)
\* is kept as it is
decodeURIComponent(s) ==
  ConcatRange([k \in 1..Len(s) |->
                 IF IsEscapeAt(s, k)
                 THEN CHOOSE c \in EscapedChars : HexOf[c] = SubSeq(s, k + 1, k + 2)
                 ELSE IF IsEscapeAt(s, k - 1) \/ IsEscapeAt(s, k - 2) THEN ""
                 ELSE Char(s, k)], 1, Len(s))

(***************************************************************************)
(* new URL(u): the parts of the WHATWG parse the handler reads.            *)
(***************************************************************************)
SchemeChars ==
  {"a", "b", "c", "d", "e", "f", "g", "h", "i", "j", "k", "l", "m", "n", "o", "p", "q",
   "r", "s", "t", "u", "v", "w", "x", "y", "z", "0", "1", "2", "3", "4", "5", "6", "7",
   "8", "9", "+", "-", "."}

Digits == {"0", "1", "2", "3", "4", "5", "6", "7", "8", "9"}

\* code points a host may not contain (the ones printable in this alphabet)
ForbiddenHostChars == {" ", "#", "/", ":", "<", ">", "?", "@", "[", "\\", "]", "^", "|", "%"}

\* first position >= i of s holding a character outside set, Len(s) + 1 if none
SkipIn(s, i, set) ==
  LET hits == {k \in i..Len(s) : Char(s, k) \notin set}
  IN IF hits = {} THEN Len(s) + 1 ELSE Min(hits)

\* position of the ':' ending the scheme of u, 0 when u has no scheme
SchemeEnd(u) ==
  LET k == SkipIn(ToLowerCase(u), 1, SchemeChars)
  IN IF k > 1 /\ Char(u, k) = ":" /\ LowerChar(Char(u, 1)) \notin (Digits \cup {"+", "-", "."})
     THEN k ELSE 0

\* last position of character c in s, 0 if none
LastIndexOf(s, c, i) ==
  LET hits == {k \in 1..i : Char(s, k) = c}
  IN IF hits = {} THEN 0 ELSE Max(hits)

\* s consists of digits only
AllDigits(s) == \A k \in 1..Len(s) : Char(s, k) \in Digits

\* host of a special URL from its authority text: user info dropped, host
\* lower-cased, the default port of the scheme dropped
HostOf(authority, scheme) ==
  Let(From(authority, LastIndexOf(authority, "@", Len(authority)) + 1), LAMBDA hostport :
  Let(LastIndexOf(hostport, ":", Len(hostport)), LAMBDA colon :
    IF colon > 0 /\ AllDigits(From(hostport, colon + 1))
    THEN Let(From(hostport, colon + 1), LAMBDA port :
           IF port = "" \/ port = (IF scheme = "https" THEN "443" ELSE "80")
           THEN ToLowerCase(SubSeq(hostport, 1, colon - 1))
           ELSE ToLowerCase(SubSeq(hostport, 1, colon - 1)) \o ":" \o port)
    ELSE ToLowerCase(hostport)))

\* the host name of a host: the part before the port
HostnameOf(host) ==
  Let(LastIndexOf(host, ":", Len(host)), LAMBDA colon :
    IF colon > 0 /\ AllDigits(From(host, colon + 1)) THEN SubSeq(host, 1, colon - 1) ELSE host)

\* new URL(u): ok is FALSE where the constructor throws; protocol and host are the
\* properties of those names
ParseUrl(u) ==
  Let(SchemeEnd(u), LAMBDA e :
    IF e = 0 THEN [ok |-> FALSE, protocol |-> "", host |-> ""]
    ELSE Let(ToLowerCase(SubSeq(u, 1, e - 1)), LAMBDA scheme :
      IF scheme \notin {"http", "https"} THEN [ok |-> TRUE, protocol |-> scheme \o ":", host |-> ""]
      ELSE Let(SkipIn(u, e + 1, {"/", "\\"}), LAMBDA a :
           Let(HostOf(SubSeq(u, a, SkipNot(u, a, {"/", "\\", "?", "#"}) - 1), scheme), LAMBDA host :
           Let(HostnameOf(host), LAMBDA hostname :
             [ok |-> hostname /= ""
                     /\ \A k \in 1..Len(hostname) : Char(hostname, k) \notin ForbiddenHostChars,
              protocol |-> scheme \o ":",
              host |-> host])))))

\* `${originalUrlObj.protocol}//${originalUrlObj.host}`
UrlBase(u) == Let(ParseUrl(u), LAMBDA p : p.protocol \o "//" \o p.host)

\* a faulty validation: every string passes
isValidUrlAlways(u) == TRUE

isValidUrl(u) == ParseUrl(u).ok

\* a faulty normalisation: the scheme is prepended to every input
sanitizeUrlPrependAlways(u) == "https://" \o u

sanitizeUrl(u) ==
  IF ~StartsWith(u, "http://") /\ ~StartsWith(u, "https://") THEN "https://" \o u ELSE u

\* sanitizeUrl of the client's proxyUtils: `string | false`; isString tells which,
\* value is the string ("" with false)
clientSanitizeUrl(u) ==
  Let(IF ~StartsWith(u, "http://") /\ ~StartsWith(u, "https://") THEN "https://" \o u ELSE u,
      LAMBDA sanitized :
        IF ParseUrl(sanitized).ok THEN [isString |-> TRUE, value |-> sanitized]
        ELSE [isString |-> FALSE, value |-> ""])

(***************************************************************************)
(* The HTML rewriter of app.all('/api/proxy'): one operator per pass.  A   *)
(* matcher XMatch(s, i) answers whether the pass's regular expression      *)
(* matches at position i: end is the last position of the match (0: no     *)
(* match) and out the text the replace callback returns for it.  A pass    *)
(* scans left to right and resumes after each match, as String.replace     *)
(* with the g flag does.                                                   *)
(***************************************************************************)
NoMatch == [end |-> 0, out |-> ""]

ProxyPrefix == "/api/proxy?url="

urlAttributes ==
  <<"href", "src", "action", "data-src", "srcset", "data-srcset", "poster",
    "background", "formaction", "cite", "longdesc", "usemap">>

\* length of the text `(?:href|src|...)=` matches at i, 0 if it does not match
AttrNameLen(s, i) ==
  Let({k \in 1..Len(urlAttributes) : HasAtCI(s, i, urlAttributes[k] \o "=")}, LAMBDA hit :
    IF hit = {} THEN 0 ELSE Len(urlAttributes[CHOOSE k \in hit : TRUE]) + 1)

\* length of the text `https?:\/\/` matches at i, 0 if it does not match
HttpSchemeLen(s, i) ==
  IF HasAtCI(s, i, "https://") THEN 8 ELSE IF HasAtCI(s, i, "http://") THEN 7 ELSE 0

\* ((?:href|...)=["'])(?:https?:\/\/[^"']+)(["']), flags gi, and its callback
AttributeMatch(s, i) ==
  Let(AttrNameLen(s, i), LAMBDA n :
    IF n = 0 \/ Char(s, i + n) \notin Quotes \/ HttpSchemeLen(s, i + n + 1) = 0 THEN NoMatch
    ELSE Let(i + n, LAMBDA q :
         Let(SkipNot(s, q + 1 + HttpSchemeLen(s, q + 1), Quotes), LAMBDA e :
           IF e > q + 1 + HttpSchemeLen(s, q + 1) /\ e <= Len(s)
           THEN [end |-> e,
                 out |-> SubSeq(s, i, q) \o ProxyPrefix
                         \o encodeURIComponent(SubSeq(s, q + 1, e - 1)) \o Char(s, e)]
           ELSE NoMatch)))

\* the text of s from position i on with every match replaced: the next match is
\* the leftmost one at or after i, and scanning resumes behind it
RECURSIVE AttributePassFrom(_, _)
AttributePassFrom(s, i) ==
  Let({k \in i..Len(s) : AttributeMatch(s, k).end > 0}, LAMBDA hits :
    IF hits = {} THEN From(s, i)
    ELSE Let(Min(hits), LAMBDA k :
         Let(AttributeMatch(s, k), LAMBDA m :
           SubSeq(s, i, k - 1) \o m.out \o AttributePassFrom(s, m.end + 1))))

\* pass 1: absolute URLs in the monitored attributes
AttributePass(html) == AttributePassFrom(html, 1)

\* the callback of srcset.split(',').map: `url` is the entry's own first token, which
\* shadows the page URL inside the callback, so new URL(url) parses the entry
SrcsetEntry(src) ==
  Let(SplitWs(Trim(src)), LAMBDA parts :
  Let(parts[1], LAMBDA url :
  Let(IF Len(parts) >= 2 /\ parts[2] /= "" THEN " " \o parts[2] ELSE "", LAMBDA tail :
    IF StartsWith(url, "http")
    THEN ProxyPrefix \o encodeURIComponent(url) \o tail
    ELSE IF StartsWith(url, "/")
    THEN IF ParseUrl(url).ok
         THEN ProxyPrefix \o encodeURIComponent(UrlBase(url) \o url) \o tail
         ELSE src
    ELSE src)))

\* srcset=["']([^"']+)["'], flags gi, and its callback
SrcsetMatch(s, i) ==
  IF ~HasAtCI(s, i, "srcset=") \/ Char(s, i + 7) \notin Quotes THEN NoMatch
  ELSE Let(i + 7, LAMBDA q :
       Let(SkipNot(s, q + 1, Quotes), LAMBDA e :
         IF e > q + 1 /\ e <= Len(s)
         THEN Let(Split(SubSeq(s, q + 1, e - 1), ","), LAMBDA entries :
                [end |-> e,
                 out |-> "srcset=\""
                         \o Join([k \in 1..Len(entries) |-> SrcsetEntry(entries[k])], ", ")
                         \o "\""])
         ELSE NoMatch))

RECURSIVE SrcsetPassFrom(_, _)
SrcsetPassFrom(s, i) ==
  Let({k \in i..Len(s) : SrcsetMatch(s, k).end > 0}, LAMBDA hits :
    IF hits = {} THEN From(s, i)
    ELSE Let(Min(hits), LAMBDA k :
         Let(SrcsetMatch(s, k), LAMBDA m :
           SubSeq(s, i, k - 1) \o m.out \o SrcsetPassFrom(s, m.end + 1))))

\* pass 2: srcset lists
SrcsetPass(html) == SrcsetPassFrom(html, 1)

\* ((?:href|...)=["'])\/([^"']*)(["']), flags gi, and its callback
RelativeMatch(s, i, url) ==
  Let(AttrNameLen(s, i), LAMBDA n :
    IF n = 0 \/ Char(s, i + n) \notin Quotes \/ Char(s, i + n + 1) /= "/" THEN NoMatch
    ELSE Let(i + n, LAMBDA q :
         Let(SkipNot(s, q + 2, Quotes), LAMBDA e :
           IF e <= Len(s)
           THEN [end |-> e,
                 out |-> IF ParseUrl(url).ok
                         THEN SubSeq(s, i, q) \o ProxyPrefix
                              \o encodeURIComponent(UrlBase(url) \o "/" \o SubSeq(s, q + 2, e - 1))
                              \o Char(s, e)
                         ELSE SubSeq(s, i, e)]
           ELSE NoMatch)))

RECURSIVE RelativePassFrom(_, _, _)
RelativePassFrom(s, i, url) ==
  Let({k \in i..Len(s) : RelativeMatch(s, k, url).end > 0}, LAMBDA hits :
    IF hits = {} THEN From(s, i)
    ELSE Let(Min(hits), LAMBDA k :
         Let(RelativeMatch(s, k, url), LAMBDA m :
           SubSeq(s, i, k - 1) \o m.out \o RelativePassFrom(s, m.end + 1, url))))

\* pass 3: values of the monitored attributes that begin with '/'
RelativePass(html, url) == RelativePassFrom(html, 1, url)

\* the callback of the CSS pass for the token `match` holding resourceUrl
CssUrlReplacement(match, resourceUrl, url) ==
  IF StartsWith(resourceUrl, "http")
  THEN "url('" \o ProxyPrefix \o encodeURIComponent(resourceUrl) \o "')"
  ELSE IF StartsWith(resourceUrl, "/") /\ ParseUrl(url).ok
  THEN "url('" \o ProxyPrefix \o encodeURIComponent(UrlBase(url) \o resourceUrl) \o "')"
  ELSE match

\* url\(['"]?([^)"']+)['"]?\), flags gi, and its callback
CssUrlMatch(s, i, url) ==
  IF ~HasAtCI(s, i, "url(") THEN NoMatch
  ELSE Let(IF Char(s, i + 4) \in Quotes THEN i + 5 ELSE i + 4, LAMBDA p :
       Let(SkipNot(s, p, Quotes \cup {")"}), LAMBDA e :
       Let(IF Char(s, e) = ")" THEN e
           ELSE IF Char(s, e) \in Quotes /\ Char(s, e + 1) = ")" THEN e + 1 ELSE 0, LAMBDA end :
         IF e > p /\ end > 0
         THEN [end |-> end,
               out |-> CssUrlReplacement(SubSeq(s, i, end), SubSeq(s, p, e - 1), url)]
         ELSE NoMatch)))

RECURSIVE CssUrlPassFrom(_, _, _)
CssUrlPassFrom(s, i, url) ==
  Let({k \in i..Len(s) : CssUrlMatch(s, k, url).end > 0}, LAMBDA hits :
    IF hits = {} THEN From(s, i)
    ELSE Let(Min(hits), LAMBDA k :
         Let(CssUrlMatch(s, k, url), LAMBDA m :
           SubSeq(s, i, k - 1) \o m.out \o CssUrlPassFrom(s, m.end + 1, url))))

\* pass 4: CSS url() tokens anywhere in the text
CssUrlPass(html, url) == CssUrlPassFrom(html, 1, url)

\* bgUrl.replace(/['"]/g, '')
StripQuotes(s) ==
  ConcatRange([k \in 1..Len(s) |-> IF Char(s, k) \in Quotes THEN "" ELSE Char(s, k)],
              1, Len(s))

BgLiteral == "background-image:url("

\* background-image:url\(([^)]+)\)([^"']*)["'] matches at k
BgRestOk(s, k) ==
  /\ HasAtCI(s, k, BgLiteral)
  /\ Let(SkipNot(s, k + Len(BgLiteral), {")"}), LAMBDA kc :
       kc > k + Len(BgLiteral) /\ kc <= Len(s) /\ SkipNot(s, kc + 1, Quotes) <= Len(s))

\* the callback of the inline-style pass
InlineStyleReplacement(match, prefix, cleanBgUrl, suffix, url) ==
  IF StartsWith(cleanBgUrl, "http")
  THEN "style=\"" \o prefix \o "background-image:url('" \o ProxyPrefix
       \o encodeURIComponent(cleanBgUrl) \o "')" \o suffix \o "\""
  ELSE IF StartsWith(cleanBgUrl, "/") /\ ParseUrl(url).ok
  THEN "style=\"" \o prefix \o "background-image:url('" \o ProxyPrefix
       \o encodeURIComponent(UrlBase(url) \o cleanBgUrl) \o "')" \o suffix \o "\""
  ELSE match

\* style=["']([^"']*)background-image:url\(([^)]+)\)([^"']*)["'], flags gi, and its
\* callback.  The first group is greedy, so of the places where the literal can
\* stand inside the quote-free run the last one that lets the rest match is taken.
InlineStyleMatch(s, i, url) ==
  IF ~HasAtCI(s, i, "style=") \/ Char(s, i + 6) \notin Quotes THEN NoMatch
  ELSE Let({k \in (i + 7)..SkipNot(s, i + 7, Quotes) : BgRestOk(s, k)}, LAMBDA cands :
    IF cands = {} THEN NoMatch
    ELSE Let(Max(cands), LAMBDA b :
         Let(SkipNot(s, b + Len(BgLiteral), {")"}), LAMBDA c :
         Let(SkipNot(s, c + 1, Quotes), LAMBDA d :
           [end |-> d,
            out |-> InlineStyleReplacement(SubSeq(s, i, d), SubSeq(s, i + 7, b - 1),
                      Trim(StripQuotes(SubSeq(s, b + Len(BgLiteral), c - 1))),
                      SubSeq(s, c + 1, d - 1), url)]))))

RECURSIVE InlineStylePassFrom(_, _, _)
InlineStylePassFrom(s, i, url) ==
  Let({k \in i..Len(s) : InlineStyleMatch(s, k, url).end > 0}, LAMBDA hits :
    IF hits = {} THEN From(s, i)
    ELSE Let(Min(hits), LAMBDA k :
         Let(InlineStyleMatch(s, k, url), LAMBDA m :
           SubSeq(s, i, k - 1) \o m.out \o InlineStylePassFrom(s, m.end + 1, url))))

\* pass 5: inline style attributes with a background-image
InlineStylePass(html, url) == InlineStylePassFrom(html, 1, url)

LocationText == "window.location"

\* what the location pass puts in front of each window.location
NavigatePrefix == "window.parent.postMessage('navigate:', '*'); "

OccurrencesOf(s, p) == Cardinality({k \in 1..Len(s) : HasAt(s, k, p)})

LocationReplacement == "window.parent.postMessage('navigate:', '*'); window.location"

RECURSIVE LocationPassFrom(_, _)
LocationPassFrom(s, i) ==
  Let(IndexOf(s, LocationText, i), LAMBDA k :
    IF k = 0 THEN From(s, i)
    ELSE SubSeq(s, i, k - 1) \o LocationReplacement
         \o LocationPassFrom(s, k + Len(LocationText)))

\* a faulty pass: the text written by the replacement is scanned again
LocationPassRescanning(html) == LocationPassFrom(LocationPassFrom(html, 1), 1)

\* pass 6: html.replace(/window\.location/g, ...)
LocationPass(html) == LocationPassFrom(html, 1)

\* the end of the first match of /<head[^>]*>/ at or after i, 0 if there is none
HeadTagFrom(s, i) ==
  Let({k \in i..Len(s) : HasAt(s, k, "<head") /\ SkipNot(s, k + 5, {">"}) <= Len(s)},
      LAMBDA hits : IF hits = {} THEN 0 ELSE SkipNot(s, Min(hits) + 5, {">"}))

baseTag(url) == "<base href=\"" \o url \o "\">"

\* pass 7: html.replace(/<head[^>]*>/, match => `${match}${baseTag}`): first match only
BaseTagPass(html, url) ==
  Let(HeadTagFrom(html, 1), LAMBDA e :
    IF e = 0 THEN html ELSE SubSeq(html, 1, e) \o baseTag(url) \o From(html, e + 1))

\* The injected bridge script, abridged to the statements the rewriter's own
\* patterns could touch (window.location, /api/proxy?url=, postMessage); the full
\* text is a constant of the source and is inserted verbatim.
enhancementScript ==
  "<script>window.addEventListener('load', function() { window.parent.postMessage('iframe:loaded', '*'); });"
  \o "window.addEventListener('error', function(e) { window.parent.postMessage('error:' + e.message, '*'); return false; });"
  \o "window.location.href = '/api/proxy?url=' + encodeURIComponent(target.href);"
  \o "</script>"

\* pass 8: html.replace('</head>', `${enhancementScript}</head>`): first occurrence only
BridgePass(html) ==
  Let(IndexOf(html, "</head>", 1), LAMBDA k :
    IF k = 0 THEN html ELSE SubSeq(html, 1, k - 1) \o enhancementScript \o From(html, k))

\* a faulty order: the bridge script is injected first and the passes run over it
RewriteTrailBridgeFirst(html, url) ==
  Let(AttributePass(BridgePass(html)), LAMBDA h1 :
  Let(SrcsetPass(h1), LAMBDA h2 :
  Let(RelativePass(h2, url), LAMBDA h3 :
  Let(CssUrlPass(h3, url), LAMBDA h4 :
  Let(InlineStylePass(h4, url), LAMBDA h5 :
  Let(LocationPass(h5), LAMBDA h6 :
  Let(BaseTagPass(h6, url), LAMBDA h7 :
    <<h1, h2, h3, h4, h5, h6, h7, h7>>)))))))

\* the value of the local variable `html` after each of the eight passes, in order
RewriteTrail(html, url) ==
  Let(AttributePass(html), LAMBDA h1 :
  Let(SrcsetPass(h1), LAMBDA h2 :
  Let(RelativePass(h2, url), LAMBDA h3 :
  Let(CssUrlPass(h3, url), LAMBDA h4 :
  Let(InlineStylePass(h4, url), LAMBDA h5 :
  Let(LocationPass(h5), LAMBDA h6 :
  Let(BaseTagPass(h6, url), LAMBDA h7 :
  Let(BridgePass(h7), LAMBDA h8 :
    <<h1, h2, h3, h4, h5, h6, h7, h8>>))))))))

\* the whole HTML branch: the text handed to res.send
RewriteHtml(html, url) == RewriteTrail(html, url)[8]

(***************************************************************************)
(* Response headers.  res.setHeader keys a header by its lower-cased name; *)
(* node-fetch exposes the upstream headers under lower-cased names.        *)
(***************************************************************************)
EmptyHeaders == [n \in {} |-> ""]

\* res.setHeader(name, value)
SetHeader(h, name, value) ==
  [n \in DOMAIN h \cup {ToLowerCase(name)} |-> IF n = ToLowerCase(name) THEN value ELSE h[n]]

\* response.headers of node-fetch for the header lines `raw` (a set of <<name, value>>
\* with names that differ in more than letter case)
FetchHeaders(raw) ==
  [n \in {ToLowerCase(r[1]) : r \in raw} |->
     (CHOOSE r \in raw : ToLowerCase(r[1]) = n)[2]]

safeHeaderKeys ==
  {"content-type", "content-length", "date", "connection", "last-modified", "etag",
   "vary", "content-encoding", "content-language", "expires", "pragma",
   "cache-control", "accept-ranges", "content-range", "set-cookie"}

\* a faulty loop: every upstream header is set on res, allow-listed or not
ForwardAllHeaders(h, up) ==
  [n \in DOMAIN h \cup DOMAIN up |-> IF n \in DOMAIN up THEN up[n] ELSE h[n]]

\* the loop over response.headers.entries(): an allow-listed header is set on res
ForwardSafeHeaders(h, up) ==
  [n \in DOMAIN h \cup {k \in DOMAIN up : ToLowerCase(k) \in safeHeaderKeys} |->
     IF n \in DOMAIN up /\ ToLowerCase(n) \in safeHeaderKeys THEN up[n] ELSE h[n]]

\* the res.setHeader calls that follow the loop, in source order
OverrideHeaders ==
  << <<"Access-Control-Allow-Origin", "*">>,
     <<"Access-Control-Allow-Methods", "GET, POST, PUT, DELETE, OPTIONS, HEAD, PATCH">>,
     <<"Access-Control-Allow-Headers",
       "Origin, X-Requested-With, Content-Type, Accept, Authorization, X-HTTP-Method-Override">>,
     <<"Access-Control-Allow-Credentials", "true">>,
     <<"Access-Control-Max-Age", "86400">>,
     <<"X-Frame-Options", "ALLOWALL">>,
     <<"X-XSS-Protection", "1; mode=block">>,
     <<"X-Content-Type-Options", "nosniff">>,
     <<"Cache-Control", "no-cache, no-store, must-revalidate">>,
     <<"Content-Security-Policy",
       "default-src * 'unsafe-inline' 'unsafe-eval' data: blob:; connect-src * data: blob:; img-src * data: blob:; media-src * data: blob:; font-src * data: blob:; script-src * 'unsafe-inline' 'unsafe-eval'; style-src * 'unsafe-inline';">> >>

RECURSIVE SetHeaders(_, _)
SetHeaders(h, pairs) ==
  IF pairs = <<>> THEN h
  ELSE SetHeaders(SetHeader(h, pairs[1][1], pairs[1][2]), Tail(pairs))

\* a faulty order: the fixed headers are set first and the upstream copy runs last
RelayHeadersCopyLast(up) == ForwardSafeHeaders(SetHeaders(EmptyHeaders, OverrideHeaders), up)

\* the headers on res when the handler awaits the upstream body
RelayHeaders(up) == SetHeaders(ForwardSafeHeaders(EmptyHeaders, up), OverrideHeaders)

\* response.headers.get('content-type') || 'text/html'
ContentTypeOf(up) ==
  IF "content-type" \in DOMAIN up /\ up["content-type"] /= "" THEN up["content-type"]
  ELSE "text/html"

\* a faulty branch: every body is taken for HTML
IsHtmlAlways(contentType) == TRUE

\* contentType.includes('text/html')
IsHtml(contentType) == Includes(contentType, "text/html")

\* the body res.status(...).json(...) sends
JsonBody(message, error) ==
  IF error = "" THEN "{\"message\":\"" \o message \o "\"}"
  ELSE "{\"message\":\"" \o message \o "\",\"error\":\"" \o error \o "\"}"

(***************************************************************************)
(* Bounds and inputs.                                                      *)
(***************************************************************************)
\* most upstream headers besides content-type in one upstream response
MaxHeaders == 2

\* most path segments of a URL found in a document
MaxSegs == 2

\* most entries of a srcset list
MaxEntries == 2

\* effect identities of ProxyFrame told apart (they are reused in rotation)
MaxEffects == 3

\* most re-renders of Home that none of the frame's callbacks caused (theme, help
\* dialog, the save mutation and the query settling)
MaxRerenders == 2

\* longest frame location from which a form is still submitted: a form without
\* action submits to the location itself, which grows with every submission
MaxLocationLen == 80

Methods == {"GET", "HEAD", "POST", "PUT", "OPTIONS"}

\* an inbound request by its method: the Content-Type header it carries ("" when it
\* carries none) and its body bytes ("" when it has no body)
InboundRequest(m) ==
  CASE m = "POST" -> [method |-> m, contentType |-> "application/x-www-form-urlencoded",
                      body |-> "q=1&r=%2F"]
    [] m = "PUT" -> [method |-> m, contentType |-> "application/json", body |-> "{\"q\":2}"]
    [] OTHER -> [method |-> m, contentType |-> "", body |-> ""]

InboundRequests == {InboundRequest(m) : m \in Methods}

\* req.query.url; "" stands for a request without the parameter
UrlParams == {"", "ex.com/dir/page", "http://b.org:8080/", "https://"}

UpstreamStatuses == {200, 404}

ContentTypeLines ==
  { {}, {<<"Content-Type", "text/html; charset=utf-8">>}, {<<"Content-Type", "text/css">>},
    {<<"content-type", "application/json">>}, {<<"Content-Type", "">>} }

HeaderPool ==
  { <<"ETag", "W/1">>, <<"X-Powered-By", "PHP">>, <<"Cache-Control", "max-age=3600">>,
    <<"X-Frame-Options", "DENY">>, <<"Content-Security-Policy", "default-src 'none'">> }

\* the header lines an upstream response may carry
UpstreamHeaderSets ==
  {ct \cup extra : ct \in ContentTypeLines,
                   extra \in {x \in SUBSET HeaderPool : Cardinality(x) <= MaxHeaders}}

UpstreamBodies ==
  { "<html><head></head><img src=\"https://cdn.x.com/a.png\"></html>",
    "a{background:url(https://a.c/x.png)}",
    "{\"next\":\"/api/items\"}" }

FetchErrors == {"getaddrinfo ENOTFOUND ex.com", "connect ECONNREFUSED 10.0.0.1:443"}

BodyErrors == {"Premature close"}

\* the origin the client loads the proxy from (the page that embeds the frame)
ProxyOrigin == "http://proxy.local"

\* URLs of proxied pages, as the handler holds them after sanitizeUrl and isValidUrl
PageUrls == {"https://ex.com/dir/page", "http://b.org:8080/"}

RECURSIVE PathOf(_)
PathOf(n) == IF n <= 1 THEN "/a.png?w=1&h=2" ELSE "/img" \o PathOf(n - 1)

Paths == {PathOf(n) : n \in 1..MaxSegs}

ResourceOrigins == {"https://cdn.x.com", "http://a.c:8080"}

AbsoluteUrls == {o \o p : o \in ResourceOrigins, p \in Paths}

\* a value that already targets the proxy
ProxiedValue == ProxyPrefix \o encodeURIComponent("https://cdn.x.com/a.png")

\* single-URL attribute values
SingleValues ==
  AbsoluteUrls \cup Paths
  \cup {"//cdn.x.com/a.js", "img/x.png", "#top", ProxiedValue, "/docs/window.location",
        "/a,b.png", "/go/url(http://e.com/x)"}

\* srcset lists of at most MaxEntries entries
SrcsetEntries == {"https://cdn.x.com/a.png 1x", "/b.png 2x", "img/c.png 100w"}

RECURSIVE SrcsetLists(_, _)
SrcsetLists(n, sep) ==
  IF n <= 1 THEN SrcsetEntries
  ELSE SrcsetLists(n - 1, sep)
       \cup {e \o sep \o l : e \in SrcsetEntries, l \in SrcsetLists(n - 1, sep)}

UrlAttributeNames == {urlAttributes[k] : k \in 1..Len(urlAttributes)}

\* the elements a document is built around
Elements ==
  {[kind |-> "attr", name |-> n, quote |-> q, inner |-> "", value |-> v] :
     n \in UrlAttributeNames, q \in Quotes, v \in SingleValues}
  \cup {[kind |-> "attr", name |-> n, quote |-> q, inner |-> "", value |-> v] :
          n \in {"srcset", "data-srcset"}, q \in Quotes,
          v \in SrcsetLists(MaxEntries, ", ") \cup SrcsetLists(MaxEntries, ",")}
  \cup {[kind |-> "css", name |-> "", quote |-> q, inner |-> "", value |-> v] :
          q \in Quotes \cup {""},
          v \in AbsoluteUrls \cup Paths \cup {"img/x.png", "//cdn.x.com/a.png", ProxiedValue}}
  \cup {[kind |-> "style", name |-> "", quote |-> q, inner |-> i, value |-> v] :
          q \in Quotes, i \in Quotes \cup {""},
          v \in AbsoluteUrls \cup Paths \cup {"img/x.png"}}
  \cup {[kind |-> "script", name |-> "", quote |-> "", inner |-> "", value |-> v] :
          v \in {"if (window.location.href) { top = window.location; }"}}
  \cup {[kind |-> "markup", name |-> "", quote |-> "", inner |-> "", value |-> v] :
          v \in {"<header class=\"top\"><h1>News</h1></header>", "<p>headline</p>"}}

\* the markup of an element
Render(e) ==
  CASE e.kind = "attr" -> "<img " \o e.name \o "=" \o e.quote \o e.value \o e.quote \o ">"
    [] e.kind = "css" ->
         "<style>a{background:url(" \o e.quote \o e.value \o e.quote \o ")}</style>"
    [] e.kind = "style" ->
         "<div style=" \o e.quote \o "color:red;background-image:url(" \o e.inner \o e.value
         \o e.inner \o ")" \o e.quote \o ">"
    [] e.kind = "markup" -> e.value
    [] OTHER -> "<script>" \o e.value \o "</script>"

\* the page around it, with or without a head
RenderPage(head, e) ==
  IF head THEN "<html><head><title>t</title></head><body>" \o Render(e) \o "</body></html>"
  ELSE "<html><body>" \o Render(e) \o "</body></html>"

\* well-formed: the value does not hold the quote it is wrapped in
Docs ==
  {[url |-> u, head |-> h, elem |-> e] : u \in PageUrls, h \in BOOLEAN,
     e \in {x \in Elements : x.quote = "" \/ x.inner /= x.quote}}

NoDoc == [url |-> "", head |-> FALSE,
          elem |-> [kind |-> "none", name |-> "", quote |-> "", inner |-> "", value |-> ""]]

NoResponse == [status |-> 0, headers |-> EmptyHeaders, body |-> ""]

NoRequest == [route |-> "", method |-> "", urlParam |-> "", contentType |-> "", body |-> ""]

(***************************************************************************)
(* State.                                                                  *)
(***************************************************************************)
VARIABLES
  pc,          \* where the handler stands: idle, fetching, reading, legacyFetching, done
  req,         \* the inbound request: route, method, url query parameter, content type, body
  url,         \* the handler's local `url`
  outbound,    \* the upstream fetches dispatched for this request
  upstream,    \* the upstream response: status, headers, body
  resStatus,   \* res.statusCode
  resHeaders,  \* the headers set on res, by lower-cased name
  resBody,     \* the body written to res
  sent,        \* which call ended the response: none, json, html, buffer, status, text, pipe
  doc,         \* rewriter run: the page (its URL and markup parts) being rewritten
  html,        \* rewriter run: the local `html`
  passes,      \* rewriter run: the value of `html` after each pass so far
  input,       \* normalizer run: the string given to sanitizeUrl
  serverUrl,   \* normalizer run: what the server's sanitizeUrl returned, <<>> before the call
  clientUrl,   \* normalizer run: what the client's sanitizeUrl returned, <<>> before the call
  frameUrl,    \* bridge run: window.location.href of the frame
  native,      \* bridge run: the last call of a patched function and what the native one got
  click,       \* bridge run: the last anchor click and whether its default was prevented
  xhrs,        \* bridge run: the XMLHttpRequests of submitted forms: readyState, status, log
  frameDoc,    \* bridge run: the document in the frame: page as loaded, or a form's response
  currentUrl,  \* frame host: Home's currentUrl, "" for null (no ProxyFrame mounted)
  isLoading,   \* frame host: Home's isLoading
  isError,     \* frame host: Home's isError
  errorMessage,\* frame host: Home's errorMessage
  listeners,   \* frame host: the effects whose message listener is on window
  timers,      \* frame host: the effects whose fallback timer is pending
  effectId,    \* frame host: the effect set up by the last render of ProxyFrame
  renders,     \* frame host: re-renders of Home for reasons of its own so far
  called,      \* frame host: the callback ProxyFrame called last
  rows,        \* store: the records of recent_searches, in insertion order
  serial,      \* store: the last value of the id sequence
  clock,       \* store: the time of the last write
  posts        \* store: each client's POST /api/recent-searches: position, locals, response

vars == <<pc, req, url, outbound, upstream, resStatus, resHeaders, resBody, sent, doc,
          html, passes, input, serverUrl, clientUrl, frameUrl, native, click,
          xhrs, frameDoc,
          currentUrl, isLoading, isError, errorMessage, listeners, timers, effectId,
          renders, called, rows, serial, clock, posts>>

handlerVars == <<pc, req, url, outbound, upstream, resStatus, resHeaders, resBody, sent>>

rewriterVars == <<doc, html, passes>>

normalizerVars == <<input, serverUrl, clientUrl>>

\* what the handler's actions leave alone, and what the rewriter's do
bridgeVars == <<frameUrl, native, click, xhrs, frameDoc>>

hostVars == <<currentUrl, isLoading, isError, errorMessage, listeners, timers, effectId,
              renders, called>>

storeVars == <<rows, serial, clock, posts>>

besidesHandler == <<rewriterVars, normalizerVars, bridgeVars, hostVars, storeVars>>

besidesRewriter == <<handlerVars, normalizerVars, bridgeVars, hostVars, storeVars>>

besidesNormalizer == <<handlerVars, rewriterVars, bridgeVars, hostVars, storeVars>>

besidesBridge == <<handlerVars, rewriterVars, normalizerVars, hostVars, storeVars>>

besidesHost == <<handlerVars, rewriterVars, normalizerVars, bridgeVars, storeVars>>

besidesStore == <<handlerVars, rewriterVars, normalizerVars, bridgeVars, hostVars>>

HandlerIdle ==
  /\ pc = "idle"
  /\ req = NoRequest
  /\ url = ""
  /\ outbound = <<>>
  /\ upstream = NoResponse
  /\ resStatus = 200
  /\ resHeaders = EmptyHeaders
  /\ resBody = ""
  /\ sent = "none"

RewriterIdle ==
  /\ doc = NoDoc
  /\ html = ""
  /\ passes = <<>>

NormalizerIdle ==
  /\ input = ""
  /\ serverUrl = <<>>
  /\ clientUrl = <<>>

\* no call of a patched function yet, no click yet
NoCall == [api |-> "", asked |-> "", url |-> ""]

NoClick == [href |-> "", prevented |-> FALSE]

\* the XMLHttpRequest objects the model follows
XhrIds == {1, 2}

\* no form has been submitted through an XMLHttpRequest
NoXhrs == [i \in XhrIds |-> [readyState |-> 0, status |-> 0, log |-> <<>>]]

BridgeIdle ==
  /\ frameUrl = ""
  /\ native = NoCall
  /\ click = NoClick
  /\ xhrs = NoXhrs
  /\ frameDoc = "page"

\* no callback called yet
NoCallback == [fn |-> "none", arg |-> "", by |-> ""]

\* Home as useState initialises it: the search form is shown, no frame
\* the clients that post to /api/recent-searches
Clients == {1, 2}

\* a client that has posted nothing
NoPost == [pc |-> "idle", body |-> [url |-> "", title |-> ""], search |-> <<>>,
           existing |-> <<>>, status |-> 0, response |-> <<>>]

\* the table is empty and no request to /api/recent-searches is in flight
StoreIdle ==
  /\ rows = <<>>
  /\ serial = 0
  /\ clock = 0
  /\ posts = [c \in Clients |-> NoPost]

HostIdle ==
  /\ currentUrl = ""
  /\ isLoading = FALSE
  /\ isError = FALSE
  /\ errorMessage = ""
  /\ listeners = {}
  /\ timers = {}
  /\ effectId = 0
  /\ renders = 0
  /\ called = NoCallback

Init ==
  /\ HandlerIdle
  /\ RewriterIdle
  /\ NormalizerIdle
  /\ BridgeIdle
  /\ HostIdle
  /\ StoreIdle

(***************************************************************************)
(* app.all('/api/proxy'): one action per stretch between two awaits.       *)
(***************************************************************************)
\* res.status(code).json({message, error})
SendJson(code, message, error) ==
  /\ resStatus' = code
  /\ resHeaders' = SetHeader(resHeaders, "Content-Type", "application/json; charset=utf-8")
  /\ resBody' = JsonBody(message, error)
  /\ sent' = "json"
  /\ pc' = "done"

\* the five CORS headers app.options sets, in source order
PreflightHeaders ==
  << <<"Access-Control-Allow-Origin", "*">>,
     <<"Access-Control-Allow-Methods", "GET, POST, PUT, DELETE, OPTIONS, HEAD, PATCH">>,
     <<"Access-Control-Allow-Headers",
       "Origin, X-Requested-With, Content-Type, Accept, Authorization, X-HTTP-Method-Override">>,
     <<"Access-Control-Allow-Credentials", "true">>,
     <<"Access-Control-Max-Age", "86400">> >>

\* a faulty preflight handler: the url parameter is checked as app.all checks it
PreflightValidating(inbound, urlParam) ==
  /\ pc \in {"idle", "done"}
  /\ inbound.method = "OPTIONS"
  /\ req' = [route |-> "/api/proxy", method |-> inbound.method, urlParam |-> urlParam,
             contentType |-> inbound.contentType, body |-> inbound.body]
  /\ url' = sanitizeUrl(urlParam)
  /\ outbound' = <<>>
  /\ upstream' = NoResponse
  /\ IF urlParam = "" \/ ~isValidUrl(sanitizeUrl(urlParam))
     THEN /\ resStatus' = 400
          /\ resHeaders' = SetHeader(EmptyHeaders, "Content-Type", "application/json; charset=utf-8")
          /\ resBody' = JsonBody("Invalid URL provided", "")
          /\ sent' = "json"
     ELSE /\ resStatus' = 200
          /\ resHeaders' = SetHeader(SetHeaders(EmptyHeaders, PreflightHeaders),
                                     "Content-Type", "text/plain; charset=utf-8")
          /\ resBody' = "OK"
          /\ sent' = "status"
  /\ pc' = "done"
  /\ UNCHANGED besidesHandler

\* app.options('/api/proxy'), registered before app.all: the CORS headers, then
\* res.sendStatus(200), which sends the status text as a text/plain body
Preflight(inbound, urlParam) ==
  /\ pc \in {"idle", "done"}
  /\ inbound.method = "OPTIONS"
  /\ req' = [route |-> "/api/proxy", method |-> inbound.method, urlParam |-> urlParam,
             contentType |-> inbound.contentType, body |-> inbound.body]
  /\ url' = ""
  /\ outbound' = <<>>
  /\ upstream' = NoResponse
  /\ resStatus' = 200
  /\ resHeaders' = SetHeader(SetHeaders(EmptyHeaders, PreflightHeaders),
                             "Content-Type", "text/plain; charset=utf-8")
  /\ resBody' = "OK"
  /\ sent' = "status"
  /\ pc' = "done"
  /\ UNCHANGED besidesHandler

\* the fetch the handler dispatches for an inbound request and a target: method,
\* the Content-Type header of the headers object ("" when it has none) and the body
\* option ("" for undefined)
OutboundRequest(inbound, target) ==
  [url |-> target,
   method |-> inbound.method,
   contentType |-> IF inbound.method = "POST" /\ inbound.contentType /= ""
                   THEN inbound.contentType ELSE "",
   body |-> IF inbound.method /= "GET" /\ inbound.method /= "HEAD" THEN inbound.body ELSE ""]

\* a request arrives: validation, then the upstream fetch is dispatched
ProxyRequest(inbound, urlParam) ==
  /\ pc \in {"idle", "done"}
  /\ inbound.method /= "OPTIONS"
  /\ req' = [route |-> "/api/proxy", method |-> inbound.method, urlParam |-> urlParam,
             contentType |-> inbound.contentType, body |-> inbound.body]
  /\ upstream' = NoResponse
  /\ IF urlParam = ""
     THEN /\ url' = ""
          /\ outbound' = <<>>
          /\ resStatus' = 400
          /\ resHeaders' = SetHeader(EmptyHeaders, "Content-Type", "application/json; charset=utf-8")
          /\ resBody' = JsonBody("URL parameter is required", "")
          /\ sent' = "json"
          /\ pc' = "done"
     ELSE IF ~isValidUrl(sanitizeUrl(urlParam))
     THEN /\ url' = sanitizeUrl(urlParam)
          /\ outbound' = <<>>
          /\ resStatus' = 400
          /\ resHeaders' = SetHeader(EmptyHeaders, "Content-Type", "application/json; charset=utf-8")
          /\ resBody' = JsonBody("Invalid URL provided", "")
          /\ sent' = "json"
          /\ pc' = "done"
     ELSE /\ url' = sanitizeUrl(urlParam)
          /\ outbound' = <<OutboundRequest(inbound, sanitizeUrl(urlParam))>>
          /\ resStatus' = 200
          /\ resHeaders' = EmptyHeaders
          /\ resBody' = ""
          /\ sent' = "none"
          /\ pc' = "fetching"
  /\ UNCHANGED besidesHandler

\* the fetch resolves with the response head: headers are copied and overridden,
\* then the handler awaits the body
FetchResolves(status, raw) ==
  /\ pc = "fetching"
  /\ upstream' = [status |-> status, headers |-> FetchHeaders(raw), body |-> ""]
  /\ resHeaders' = RelayHeaders(FetchHeaders(raw))
  /\ pc' = "reading"
  /\ UNCHANGED <<req, url, outbound, resStatus, resBody, sent>>
  /\ UNCHANGED besidesHandler

\* a faulty catch block: the fetch is dispatched a second time
FetchRejectsRetry(cause) ==
  /\ pc = "fetching"
  /\ Len(outbound) < 2
  /\ outbound' = Append(outbound, outbound[1])
  /\ UNCHANGED <<pc, req, url, upstream, resStatus, resHeaders, resBody, sent>>
  /\ UNCHANGED besidesHandler

\* the fetch rejects: the catch block answers
FetchRejects(cause) ==
  /\ pc = "fetching"
  /\ SendJson(500, "Failed to proxy the request", cause)
  /\ UNCHANGED <<req, url, outbound, upstream>>
  /\ UNCHANGED besidesHandler

\* what res.send is given for the upstream body: the rewritten text for HTML,
\* the buffer itself otherwise
RelayedBody(contentType, body, target) ==
  IF IsHtml(contentType) THEN RewriteHtml(body, target) ELSE body

\* response.arrayBuffer() resolves: content-type branch and res.send
BodyResolves(body) ==
  /\ pc = "reading"
  /\ upstream' = [upstream EXCEPT !.body = body]
  /\ resBody' = RelayedBody(ContentTypeOf(upstream.headers), body, url)
  /\ sent' = IF IsHtml(ContentTypeOf(upstream.headers)) THEN "html" ELSE "buffer"
  /\ pc' = "done"
  /\ UNCHANGED <<req, url, outbound, resStatus, resHeaders>>
  /\ UNCHANGED besidesHandler

\* response.arrayBuffer() rejects: the catch block answers on the same res
BodyRejects(cause) ==
  /\ pc = "reading"
  /\ SendJson(500, "Failed to proxy the request", cause)
  /\ UNCHANGED <<req, url, outbound, upstream>>
  /\ UNCHANGED besidesHandler

(***************************************************************************)
(* app.get('/proxy'): the second route of registerRoutes that fetches.     *)
(***************************************************************************)
\* res.status(code).send(text)
SendText(code, text) ==
  /\ resStatus' = code
  /\ resHeaders' = SetHeader(EmptyHeaders, "Content-Type", "text/html; charset=utf-8")
  /\ resBody' = text
  /\ sent' = "text"
  /\ pc' = "done"

\* node-fetch takes the request: it rejects anything but an absolute http(s) URL
\* before any connection is made
Fetchable(target) ==
  /\ StartsWith(target, "http://") \/ StartsWith(target, "https://")
  /\ ParseUrl(target).ok

\* a GET /proxy request arrives: fetch(req.query.url) on the parameter as received
LegacyProxyRequest(urlParam) ==
  /\ pc \in {"idle", "done"}
  /\ req' = [route |-> "/proxy", method |-> "GET", urlParam |-> urlParam,
             contentType |-> "", body |-> ""]
  /\ upstream' = NoResponse
  /\ url' = urlParam
  /\ IF urlParam = ""
     THEN /\ outbound' = <<>>
          /\ SendText(400, "URL parameter is required")
     ELSE /\ outbound' = <<[url |-> urlParam, method |-> "GET", contentType |-> "", body |-> ""]>>
          /\ resStatus' = 200
          /\ resHeaders' = EmptyHeaders
          /\ resBody' = ""
          /\ sent' = "none"
          /\ pc' = "legacyFetching"
  /\ UNCHANGED besidesHandler

\* the fetch resolves: the upstream content type (text/plain without one) is set
\* and the upstream body is piped to the response
LegacyFetchResolves(status, raw, body) ==
  /\ pc = "legacyFetching"
  /\ Fetchable(url)
  /\ upstream' = [status |-> status, headers |-> FetchHeaders(raw), body |-> body]
  /\ resHeaders' =
       SetHeader(EmptyHeaders, "Content-Type",
                 IF "content-type" \in DOMAIN FetchHeaders(raw) /\ FetchHeaders(raw)["content-type"] /= ""
                 THEN FetchHeaders(raw)["content-type"] ELSE "text/plain")
  /\ resBody' = body
  /\ sent' = "pipe"
  /\ pc' = "done"
  /\ UNCHANGED <<req, url, outbound, resStatus>>
  /\ UNCHANGED besidesHandler

\* the fetch rejects: the catch block answers
LegacyFetchRejects ==
  /\ pc = "legacyFetching"
  /\ SendText(500, "Failed to proxy request")
  /\ UNCHANGED <<req, url, outbound, upstream>>
  /\ UNCHANGED besidesHandler

Next ==
  \/ \E r \in InboundRequests, u \in UrlParams : Preflight(r, u)
  \/ \E r \in InboundRequests, u \in UrlParams : ProxyRequest(r, u)
  \/ \E st \in UpstreamStatuses, raw \in UpstreamHeaderSets : FetchResolves(st, raw)
  \/ \E c \in FetchErrors : FetchRejects(c)
  \/ \E b \in UpstreamBodies : BodyResolves(b)
  \/ \E c \in BodyErrors : BodyRejects(c)
  \/ \E u \in UrlParams : LegacyProxyRequest(u)
  \/ \E st \in UpstreamStatuses, raw \in ContentTypeLines, b \in UpstreamBodies :
       LegacyFetchResolves(st, raw, b)
  \/ LegacyFetchRejects

Spec == Init /\ [][Next]_vars

(***************************************************************************)
(* The rewriter on its own: the HTML branch of the handler applied to a    *)
(* page drawn from Docs.                                                   *)
(***************************************************************************)
InitRewrite ==
  /\ HandlerIdle
  /\ NormalizerIdle
  /\ BridgeIdle
  /\ HostIdle
  /\ StoreIdle
  /\ doc \in Docs
  /\ html = RenderPage(doc.head, doc.elem)
  /\ passes = <<>>

\* let html = body.toString(); ... the eight passes ...; res.send(html)
RewriteDocument ==
  /\ passes = <<>>
  /\ doc.elem.kind /= "none"
  /\ passes' = RewriteTrail(html, doc.url)
  /\ html' = passes'[Len(passes')]
  /\ UNCHANGED doc
  /\ UNCHANGED besidesRewriter

NextRewrite == RewriteDocument

SpecRewrite == InitRewrite /\ [][NextRewrite]_vars

(***************************************************************************)
(* The normalizer on its own: both copies of sanitizeUrl applied to a      *)
(* string drawn from NormalizerInputs.                                     *)
(***************************************************************************)
InputPrefixes == {"", "http://", "https://", "HTTP://", "ftp://", "//", "http:", "https:/"}

InputHosts == {"", "ex.com", "EX.com", "ex .com", "b.org:8080", "b.org:x"}

InputTails == {""} \cup Paths

NormalizerInputs == {p \o h \o t : p \in InputPrefixes, h \in InputHosts, t \in InputTails}

InitNormalize ==
  /\ HandlerIdle
  /\ RewriterIdle
  /\ BridgeIdle
  /\ HostIdle
  /\ StoreIdle
  /\ input \in NormalizerInputs
  /\ serverUrl = <<>>
  /\ clientUrl = <<>>

\* the server calls sanitizeUrl(input)
ServerSanitize ==
  /\ serverUrl = <<>>
  /\ serverUrl' = <<sanitizeUrl(input)>>
  /\ UNCHANGED <<input, clientUrl>>
  /\ UNCHANGED besidesNormalizer

\* the client calls sanitizeUrl(input)
ClientSanitize ==
  /\ clientUrl = <<>>
  /\ clientUrl' = <<clientSanitizeUrl(input)>>
  /\ UNCHANGED <<input, serverUrl>>
  /\ UNCHANGED besidesNormalizer

NextNormalize == ServerSanitize \/ ClientSanitize

SpecNormalize == InitNormalize /\ [][NextNormalize]_vars

(***************************************************************************)
(* The rewritten page as the browser reads it.                             *)
(***************************************************************************)
\* the value of the element's attribute `name` in text h: what stands between the
\* quote after `name=` and the next quote of the same kind
AttrValueIn(h, name) ==
  Let(IndexOf(h, "<img " \o name \o "=", 1) + Len(name) + 6, LAMBDA q :
    SubSeq(h, q + 1, SkipNot(h, q + 1, {Char(h, q)}) - 1))

\* the first CSS url(...) token of text h, from `url(` to the closing parenthesis
CssTokenIn(h) ==
  Let(IndexOf(h, "url(", 1), LAMBDA k : SubSeq(h, k, IndexOf(h, ")", k)))

\* the target a url(...) token names: its content without the optional quotes
CssTargetOf(token) == StripQuotes(SubSeq(token, 5, Len(token) - 1))

\* the reference the document's element carries in text h
RefIn(h, e) == IF e.kind = "attr" THEN AttrValueIn(h, e.name) ELSE CssTargetOf(CssTokenIn(h))

\* the url parameter of a reference to the proxy endpoint
ProxyParam(ref) == From(ref, Len(ProxyPrefix) + 1)

\* the URL the frame loads a proxied page from (proxyUrl of the client)
DocumentUrl(u) == ProxyOrigin \o ProxyPrefix \o encodeURIComponent(u)

\* the href of the first <base> element of h, "" if it has none
BaseHrefIn(h) ==
  Let(IndexOf(h, "<base href=\"", 1), LAMBDA k :
    IF k = 0 THEN "" ELSE SubSeq(h, k + 12, SkipNot(h, k + 12, {"\""}) - 1))

\* the document's effective base URL: its first <base href>, else its own URL
BaseUrlOf(h, u) == IF BaseHrefIn(h) /= "" THEN BaseHrefIn(h) ELSE DocumentUrl(u)

\* browser resolution of reference ref against the base URL
ResolveUrl(ref, base) ==
  IF ParseUrl(ref).ok THEN ref
  ELSE IF StartsWith(ref, "//") THEN ParseUrl(base).protocol \o ref
  ELSE IF StartsWith(ref, "/") THEN UrlBase(base) \o ref
  ELSE Let(SkipNot(base, 1, {"?", "#"}) - 1, LAMBDA n :
         SubSeq(base, 1, LastIndexOf(base, "/", n)) \o ref)

\* a root-relative reference: one leading slash
IsRootRelative(v) == StartsWith(v, "/") /\ ~StartsWith(v, "//")

(***************************************************************************)
(* The bridge: the script of enhancementScript running in a frame that was *)
(* loaded through the proxy.  The page calls the patched functions, the    *)
(* user clicks anchors and submits forms.                                  *)
(***************************************************************************)
\* request targets a page script passes to XMLHttpRequest.open, fetch or window.open
ScriptTargets ==
  {o \o p : o \in ResourceOrigins, p \in Paths}
    \cup Paths
    \cup {"api/items", "//cdn.x.com/lib.js", ""}
    \cup {ProxyPrefix \o encodeURIComponent(u) : u \in PageUrls}
    \cup {ProxyOrigin \o ProxyPrefix \o encodeURIComponent(u) : u \in PageUrls}

\* the href property of the anchors of a page: resolved URLs, "" without href
AnchorHrefs ==
  {"", "https://ex.com/about", "https://other.org/", "https://ex.com/docs/api/proxy-setup"}
    \cup {ProxyOrigin \o ProxyPrefix \o encodeURIComponent(u) : u \in PageUrls}
    \cup {UrlBase(u) \o ProxyPrefix \o encodeURIComponent("https://ex.com/about") : u \in PageUrls}

\* the action property of the forms of a page: resolved URLs, "" without action
FormActions == {"", "https://ex.com/search", "https://ex.com/find?lang=en"}

FormMethods == {"", "get", "post"}

\* new URLSearchParams(new FormData(form)).toString() of the forms
FormQueries == {"q=tea", "q=a+b&page=2"}

\* the frame shows a page served by /api/proxy, so the bridge runs in it
BridgeLoaded == StartsWith(frameUrl, ProxyOrigin \o ProxyPrefix)

\* the target the patches of open, fetch and window.open hand to the native
\* function for target u in a frame at location
PatchedTarget(u, location) ==
  IF StartsWith(u, "http") \/ StartsWith(u, "/")
  THEN ProxyPrefix \o encodeURIComponent(IF StartsWith(u, "http") THEN u
                                         ELSE ResolveUrl(u, location))
  ELSE u

InitBridge ==
  /\ HandlerIdle
  /\ RewriterIdle
  /\ NormalizerIdle
  /\ frameUrl \in {DocumentUrl(u) : u \in PageUrls}
  /\ native = NoCall
  /\ click = NoClick
  /\ xhrs = NoXhrs
  /\ frameDoc = "page"
  /\ HostIdle
  /\ StoreIdle

\* a script calls xhr.open(method, u)
XhrOpen(u) ==
  /\ BridgeLoaded
  /\ native' = [api |-> "xhr", asked |-> u, url |-> PatchedTarget(u, frameUrl)]
  /\ UNCHANGED <<frameUrl, click, xhrs, frameDoc>>
  /\ UNCHANGED besidesBridge

\* a script calls fetch(u) with a string, or with a Request whose url is u
\* (a Request holds its URL resolved, so u is absolute then)
WindowFetch(u) ==
  /\ BridgeLoaded
  /\ native' = [api |-> "fetch", asked |-> u, url |-> PatchedTarget(u, frameUrl)]
  /\ UNCHANGED <<frameUrl, click, xhrs, frameDoc>>
  /\ UNCHANGED besidesBridge

\* a script calls window.open(u)
WindowOpen(u) ==
  /\ BridgeLoaded
  /\ native' = [api |-> "open", asked |-> u,
                url |-> IF u /= "" THEN PatchedTarget(u, frameUrl) ELSE u]
  /\ UNCHANGED <<frameUrl, click, xhrs, frameDoc>>
  /\ UNCHANGED besidesBridge

\* the user clicks an anchor (or an element inside one) whose href property is href
\* the frame loads another document: the requests of the old one are dropped
Navigated ==
  /\ xhrs' = NoXhrs
  /\ frameDoc' = "page"

ClickAnchor(href) ==
  /\ BridgeLoaded
  /\ IF href = "" THEN UNCHANGED <<frameUrl, click, xhrs, frameDoc>>
     ELSE /\ IF ~Includes(href, "/api/proxy")
             THEN /\ click' = [href |-> href, prevented |-> TRUE]
                  /\ frameUrl' = ResolveUrl(ProxyPrefix \o encodeURIComponent(href), frameUrl)
             ELSE /\ click' = [href |-> href, prevented |-> FALSE]
                  /\ frameUrl' = href
          /\ Navigated
  /\ UNCHANGED native
  /\ UNCHANGED besidesBridge

\* `this.action || window.location.href` and `this.method || 'GET'`
FormActionOf(action, location) == IF action /= "" THEN action ELSE location

FormMethodOf(method) == IF method /= "" THEN method ELSE "GET"

\* the target the submit listener builds for a GET form
GetFormTarget(formAction, query) ==
  ProxyPrefix \o encodeURIComponent(formAction \o (IF Includes(formAction, "?") THEN "&" ELSE "?")
                                               \o query)

\* the user submits a form: GET navigates the frame, any other method posts the
\* fields with an XMLHttpRequest opened through the patched open
\* the XMLHttpRequest objects not in flight
FreeXhrs == {i \in XhrIds : xhrs[i].readyState \in {0, 4}}

\* the submit listener, which DOMContentLoaded put on the forms of the page as loaded
SubmitForm(action, method, query) ==
  /\ BridgeLoaded
  /\ frameDoc = "page"
  /\ Len(frameUrl) <= MaxLocationLen
  /\ IF FormMethodOf(method) \in {"GET", "get"}
     THEN /\ frameUrl' = ResolveUrl(GetFormTarget(FormActionOf(action, frameUrl), query), frameUrl)
          /\ Navigated
          /\ UNCHANGED native
     ELSE /\ FreeXhrs /= {}
          /\ xhrs' = [xhrs EXCEPT ![CHOOSE i \in FreeXhrs : \A j \in FreeXhrs : i <= j] =
                                    [readyState |-> 1, status |-> 0, log |-> <<>>]]
          /\ UNCHANGED frameDoc
          /\ native' =
               [api |-> "xhr",
                asked |-> ProxyPrefix \o encodeURIComponent(FormActionOf(action, frameUrl)),
                url |-> PatchedTarget(
                          ProxyPrefix \o encodeURIComponent(FormActionOf(action, frameUrl)),
                          frameUrl)]
          /\ UNCHANGED frameUrl
  /\ UNCHANGED click
  /\ UNCHANGED besidesBridge

\* the status of the response to a form's request, 0 when the request failed
FormStatuses == {0, 199, 200, 399, 400, 500}

\* the text of the inline script of the page a form's request gets, as the upstream
\* sent it; the proxy rewrites it before the frame receives it
ResponseScripts == {"", "var n = 1;", "top = window.location;"}

\* the messages eval posts for a script the proxy rewrote
EvalPosts(script) ==
  [k \in 1..OccurrencesOf(LocationPass(script), NavigatePrefix) |->
     [op |-> "post", text |-> "navigate:", by |-> "script"]]

\* a faulty handler: it announces the load whatever the status
CompletionLogAlwaysLoaded(status, script) ==
  IF status >= 200 /\ status < 400
  THEN <<[op |-> "replace", text |-> "", by |-> "handler"]>> \o EvalPosts(script)
       \o <<[op |-> "post", text |-> "iframe:loaded", by |-> "handler"]>>
  ELSE <<[op |-> "post", text |-> "error:Form submission failed with status " \o ToString(status),
          by |-> "handler"],
         [op |-> "post", text |-> "iframe:loaded", by |-> "handler"]>>

\* what onreadystatechange does at readyState 4, in order
CompletionLog(status, script) ==
  IF status >= 200 /\ status < 400
  THEN <<[op |-> "replace", text |-> "", by |-> "handler"]>> \o EvalPosts(script)
       \o <<[op |-> "post", text |-> "iframe:loaded", by |-> "handler"]>>
  ELSE <<[op |-> "post", text |-> "error:Form submission failed with status " \o ToString(status),
          by |-> "handler"]>>

\* readyState 2 or 3: onreadystatechange runs and does nothing
XhrAdvances(i) ==
  /\ xhrs[i].readyState \in {1, 2}
  /\ xhrs' = [xhrs EXCEPT ![i].readyState = @ + 1]
  /\ UNCHANGED <<frameUrl, native, click, frameDoc>>
  /\ UNCHANGED besidesBridge

\* readyState 4: with a status after the response was received, with status 0 when
\* the request failed
XhrCompletes(i, status, script) ==
  /\ xhrs[i].readyState \in {1, 2, 3}
  /\ status /= 0 => xhrs[i].readyState = 3
  /\ xhrs' = [xhrs EXCEPT ![i] = [readyState |-> 4, status |-> status,
                                  log |-> CompletionLog(status, script)]]
  /\ frameDoc' = IF status >= 200 /\ status < 400 THEN "response" ELSE frameDoc
  /\ UNCHANGED <<frameUrl, native, click>>
  /\ UNCHANGED besidesBridge

NextBridge ==
  \/ \E u \in ScriptTargets : XhrOpen(u)
  \/ \E u \in ScriptTargets : WindowFetch(u)
  \/ \E u \in ScriptTargets : WindowOpen(u)
  \/ \E h \in AnchorHrefs : ClickAnchor(h)
  \/ \E a \in FormActions, m \in FormMethods, q \in FormQueries : SubmitForm(a, m, q)

SpecBridge == InitBridge /\ [][NextBridge]_vars

\* the forms of a page and the requests of their submissions
NextForm ==
  \/ \E a \in FormActions, m \in FormMethods, q \in FormQueries : SubmitForm(a, m, q)
  \/ \E i \in XhrIds : XhrAdvances(i)
  \/ \E i \in XhrIds, st \in FormStatuses, sc \in ResponseScripts : XhrCompletes(i, st, sc)

SpecForm == InitBridge /\ [][NextForm]_vars

(***************************************************************************)
(* The frame host: Home and the ProxyFrame it mounts while currentUrl is   *)
(* set.  An action is one event handler together with the render React     *)
(* commits for it: Home renders again when a state setter changed a value, *)
(* every render of Home creates new onLoad and onError functions, so the   *)
(* effect of ProxyFrame (dependencies url, onLoad, onError) is cleaned up  *)
(* and set up again with each of them.                                     *)
(***************************************************************************)
HostUrls == PageUrls

\* event.data of the messages that reach the host window: strings, or something else
HostMessages ==
  {[isString |-> TRUE, text |-> t] :
     t \in {"iframe:loaded", "error:boom", "error:", "error:navigate:https://ex.com/",
            "error:iframe:loaded", "navigate:", "navigate:https://ex.com/", "iframe:loaded ",
            "ERROR:boom", "ping"}}
    \cup {[isString |-> FALSE, text |-> ""]}

\* a faulty decoding: the sentinel is looked for anywhere in the string
DecodeMessageByInclusion(data) ==
  IF ~data.isString THEN NoCallback
  ELSE IF Includes(data.text, "iframe:loaded") THEN [fn |-> "onLoad", arg |-> "", by |-> "message"]
  ELSE IF Includes(data.text, "error:")
  THEN [fn |-> "onError", arg |-> From(data.text, 7), by |-> "message"]
  ELSE NoCallback

\* handleIframeEvent: the callback the listener calls for event.data
DecodeMessage(data) ==
  IF ~data.isString THEN NoCallback
  ELSE IF data.text = "iframe:loaded" THEN [fn |-> "onLoad", arg |-> "", by |-> "message"]
  ELSE IF StartsWith(data.text, "error:")
  THEN [fn |-> "onError", arg |-> From(data.text, 7), by |-> "message"]
  ELSE NoCallback

\* window.removeEventListener('message', handleIframeEvent) of effect id
RemovedListener(ls, id) == ls \ {id}

\* a faulty cleanup: the timer is left pending
ClearedTimerNot(ts, id) == ts

\* clearTimeout(loadTimer) of effect id
ClearedTimer(ts, id) == ts \ {id}

NextEffectId(id) == (id % MaxEffects) + 1

\* Home rendered with currentUrl u: the cleanup of the effect of the previous render
\* runs when the frame was mounted, the effect is set up when it is mounted now; ts
\* are the timers pending when the handler returned
Rendered(u, ts) ==
  /\ listeners' = (IF currentUrl /= "" THEN RemovedListener(listeners, effectId) ELSE listeners)
                     \cup (IF u /= "" THEN {NextEffectId(effectId)} ELSE {})
  /\ timers' = (IF currentUrl /= "" THEN ClearedTimer(ts, effectId) ELSE ts)
                  \cup (IF u /= "" THEN {NextEffectId(effectId)} ELSE {})
  /\ effectId' = IF u /= "" THEN NextEffectId(effectId) ELSE effectId

\* the state setters of a handler have run: Home renders again if a value changed
HostCommit(u, loading, error, message, ts) ==
  /\ currentUrl' = u
  /\ isLoading' = loading
  /\ isError' = error
  /\ errorMessage' = message
  /\ IF <<u, loading, error, message>> = <<currentUrl, isLoading, isError, errorMessage>>
     THEN timers' = ts /\ UNCHANGED <<listeners, effectId>>
     ELSE Rendered(u, ts)

\* onLoad(), which is handleProxyLoad, called by the listener, the timer, the iframe
\* element or a button
OnLoad(ts, by) ==
  /\ HostCommit(currentUrl, FALSE, isError, errorMessage, ts)
  /\ called' = [fn |-> "onLoad", arg |-> "", by |-> by]

\* onError(message), which is handleProxyError
OnError(message, ts, by) ==
  /\ HostCommit(currentUrl, FALSE, TRUE, message, ts)
  /\ called' = [fn |-> "onError", arg |-> message, by |-> by]

\* handleSearch(u), called by the search form, which is shown while no frame is
HandleSearch(u) ==
  /\ currentUrl = ""
  /\ HostCommit(u, TRUE, FALSE, errorMessage, timers)
  /\ UNCHANGED <<renders, called>>
  /\ UNCHANGED besidesHost

\* handleProxyClose, the close button of the frame's toolbar
HandleClose ==
  /\ currentUrl /= ""
  /\ HostCommit("", isLoading, isError, errorMessage, timers)
  /\ UNCHANGED <<renders, called>>
  /\ UNCHANGED besidesHost

\* Home renders for a reason of its own while the frame is mounted
HostRerenders ==
  /\ currentUrl /= ""
  /\ renders < MaxRerenders
  /\ renders' = renders + 1
  /\ Rendered(currentUrl, timers)
  /\ UNCHANGED <<currentUrl, isLoading, isError, errorMessage, called>>
  /\ UNCHANGED besidesHost

\* a message event reaches the window while a listener is on it
MessageDelivered(data) ==
  /\ listeners /= {}
  /\ IF DecodeMessage(data).fn = "onLoad" THEN OnLoad(timers, "message")
     ELSE IF DecodeMessage(data).fn = "onError"
     THEN OnError(DecodeMessage(data).arg, timers, "message")
     ELSE /\ called' = NoCallback
          /\ UNCHANGED <<currentUrl, isLoading, isError, errorMessage, listeners, timers,
                         effectId>>
  /\ UNCHANGED renders
  /\ UNCHANGED besidesHost

\* a faulty timer callback: it expires without calling onLoad
TimerFiresSilently(id) ==
  /\ id \in timers
  /\ timers' = timers \ {id}
  /\ UNCHANGED <<currentUrl, isLoading, isError, errorMessage, listeners, effectId, renders,
                 called>>
  /\ UNCHANGED besidesHost

\* the fallback timer of effect id expires after its 5 seconds
TimerFires(id) ==
  /\ id \in timers
  /\ OnLoad(timers \ {id}, "timer")
  /\ UNCHANGED renders
  /\ UNCHANGED besidesHost

\* the load event of the iframe element
IframeLoads ==
  /\ currentUrl /= ""
  /\ OnLoad(timers, "iframe")
  /\ UNCHANGED renders
  /\ UNCHANGED besidesHost

\* the error event of the iframe element
IframeFails ==
  /\ currentUrl /= ""
  /\ OnError("Failed to load the requested website", timers, "iframe")
  /\ UNCHANGED renders
  /\ UNCHANGED besidesHost

\* handleRefresh, the reload button of the toolbar: onLoad(), then the src is reset
HandleRefresh ==
  /\ currentUrl /= ""
  /\ OnLoad(timers, "refresh")
  /\ UNCHANGED renders
  /\ UNCHANGED besidesHost

\* handleTryAgain, the button of the error overlay: onLoad(), then the src is reset
HandleTryAgain ==
  /\ currentUrl /= ""
  /\ isError
  /\ OnLoad(timers, "tryAgain")
  /\ UNCHANGED renders
  /\ UNCHANGED besidesHost

InitHost ==
  /\ HandlerIdle
  /\ RewriterIdle
  /\ NormalizerIdle
  /\ BridgeIdle
  /\ currentUrl = ""
  /\ isLoading = FALSE
  /\ isError = FALSE
  /\ errorMessage = ""
  /\ listeners = {}
  /\ timers = {}
  /\ effectId = 0
  /\ renders = 0
  /\ called = NoCallback
  /\ StoreIdle

NextHost ==
  \/ \E u \in HostUrls : HandleSearch(u)
  \/ HandleClose
  \/ HostRerenders
  \/ \E d \in HostMessages : MessageDelivered(d)
  \/ \E id \in 1..MaxEffects : TimerFires(id)
  \/ IframeLoads
  \/ IframeFails
  \/ HandleRefresh
  \/ HandleTryAgain

SpecHost == InitHost /\ [][NextHost]_vars

\* a timer that stays pending expires
SpecHostLive == SpecHost /\ \A id \in 1..MaxEffects : WF_vars(TimerFires(id))

(***************************************************************************)
(* The store: POST /api/recent-searches against the recent_searches table. *)
(* Each await of the handler is a step, so the requests of two clients     *)
(* interleave between the select and the write.                            *)
(***************************************************************************)
\* the writes a run may make
MaxWrites == 3

\* req.body of the POSTs: url and title, "" when the field is missing
PostBodies ==
  {[url |-> u, title |-> ""] : u \in {"", "foo.com", "https://foo.com", "http://foo.com", "https://"}}
    \cup {[url |-> "foo.com", title |-> "Foo"]}

\* the InsertRecentSearch built from a body whose url passed the checks
SearchOf(body) ==
  [url |-> sanitizeUrl(body.url),
   title |-> IF body.title /= "" THEN body.title
             ELSE HostnameOf(ParseUrl(sanitizeUrl(body.url)).host),
   favicon |-> "https://www.google.com/s2/favicons?domain=" \o sanitizeUrl(body.url)]

\* a faulty select: it finds nothing
SelectByUrlNone(rs, u) == <<>>

\* db.select().from(recentSearches).where(eq(recentSearches.url, u))
SelectByUrl(rs, u) == SelectSeq(rs, LAMBDA r : r.url = u)

\* db.update(recentSearches).set({visited_at}).where(eq(recentSearches.url, u))
UpdateVisited(rs, u, now) ==
  [k \in 1..Len(rs) |-> IF rs[k].url = u THEN [rs[k] EXCEPT !.visited_at = now] ELSE rs[k]]

\* the row db.insert(recentSearches).values(search).returning() creates
InsertedRow(search, id, now) ==
  [id |-> id, url |-> search.url, title |-> search.title, favicon |-> search.favicon,
   visited_at |-> now]

InFlight == {c \in Clients : posts[c].pc \in {"selecting", "writing"}}

\* the handler up to its first await: the checks of the body and the search record
PostArrives(c, body) ==
  /\ c \notin InFlight
  /\ clock + Cardinality(InFlight) < MaxWrites
  /\ posts' = [posts EXCEPT ![c] =
       IF body.url = ""
       THEN [NoPost EXCEPT !.pc = "done", !.body = body, !.status = 400,
                           !.response = "URL is required"]
       ELSE IF ~isValidUrl(sanitizeUrl(body.url))
       THEN [NoPost EXCEPT !.pc = "done", !.body = body, !.status = 400,
                           !.response = "Invalid URL provided"]
       ELSE [NoPost EXCEPT !.pc = "selecting", !.body = body, !.search = SearchOf(body)]]
  /\ UNCHANGED <<rows, serial, clock>>
  /\ UNCHANGED besidesStore

\* a request that arrives while no other is in flight
PostArrivesAlone(c, body) ==
  /\ InFlight = {}
  /\ PostArrives(c, body)

\* the select resolves
PostSelects(c) ==
  /\ posts[c].pc = "selecting"
  /\ posts' = [posts EXCEPT ![c].pc = "writing",
                            ![c].existing = SelectByUrl(rows, posts[c].search.url)]
  /\ UNCHANGED <<rows, serial, clock>>
  /\ UNCHANGED besidesStore

\* the update or the insert resolves and the handler responds
PostWrites(c) ==
  /\ posts[c].pc = "writing"
  /\ clock' = clock + 1
  /\ IF Len(posts[c].existing) > 0
     THEN /\ rows' = UpdateVisited(rows, posts[c].search.url, clock + 1)
          /\ serial' = serial
          /\ posts' = [posts EXCEPT ![c].pc = "done", ![c].status = 200,
                                    ![c].response = posts[c].existing[1]]
     ELSE /\ rows' = Append(rows, InsertedRow(posts[c].search, serial + 1, clock + 1))
          /\ serial' = serial + 1
          /\ posts' = [posts EXCEPT ![c].pc = "done", ![c].status = 200,
                                    ![c].response =
                                      InsertedRow(posts[c].search, serial + 1, clock + 1)]
  /\ UNCHANGED besidesStore

\* the database rejects the select or the write: the catch block answers
PostFails(c) ==
  /\ c \in InFlight
  /\ posts' = [posts EXCEPT ![c].pc = "done", ![c].status = 500,
                            ![c].response = "Failed to save recent search"]
  /\ UNCHANGED <<rows, serial, clock>>
  /\ UNCHANGED besidesStore

InitStore ==
  /\ HandlerIdle
  /\ RewriterIdle
  /\ NormalizerIdle
  /\ BridgeIdle
  /\ HostIdle
  /\ StoreIdle

NextStore ==
  \/ \E c \in Clients, b \in PostBodies : PostArrives(c, b)
  \/ \E c \in Clients : PostSelects(c)
  \/ \E c \in Clients : PostWrites(c)
  \/ \E c \in Clients : PostFails(c)

SpecStore == InitStore /\ [][NextStore]_vars

\* one request after the other: a request arrives when the one before was answered
NextStoreSequential ==
  \/ \E c \in Clients, b \in PostBodies : PostArrivesAlone(c, b)
  \/ \E c \in Clients : PostSelects(c)
  \/ \E c \in Clients : PostWrites(c)
  \/ \E c \in Clients : PostFails(c)

SpecStoreSequential == InitStore /\ [][NextStoreSequential]_vars

(***************************************************************************)
(* Claims C1 to C6: the rewriter, under SpecRewrite.                       *)
(***************************************************************************)
\* C1: an absolute http(s) URL U that is the whole value of a monitored attribute
\* is sent, after all passes, as /api/proxy?url= followed by the percent-encoding
\* of exactly U, and decoding the parameter once yields U.
C1_AbsoluteUrlProxiedOnce ==
  (passes /= <<>> /\ doc.elem.kind = "attr" /\ doc.elem.value \in AbsoluteUrls)
    => /\ AttrValueIn(html, doc.elem.name) = ProxyPrefix \o encodeURIComponent(doc.elem.value)
       /\ decodeURIComponent(ProxyParam(AttrValueIn(html, doc.elem.name))) = doc.elem.value

\* C2: in a page with a <head>, every attribute reference the rewriter turned into
\* /api/proxy?url=... resolves, against the document's effective base URL, to the
\* proxy's own /api/proxy endpoint.
C2_ProxyRefsResolveToProxy ==
  (/\ passes /= <<>> /\ doc.head /\ doc.elem.kind = "attr"
   /\ AttrValueIn(html, doc.elem.name) /= doc.elem.value
   /\ StartsWith(AttrValueIn(html, doc.elem.name), ProxyPrefix))
    => StartsWith(ResolveUrl(AttrValueIn(html, doc.elem.name), BaseUrlOf(html, doc.url)),
                  ProxyOrigin \o ProxyPrefix)

\* C3: a reference that already is a /api/proxy?url= target, in the input or after
\* any of the attribute, srcset, root-relative, CSS url() and inline-style passes, is
\* left unchanged by the pass that follows.
C3_ProxyTargetsLeftAlone ==
  (passes /= <<>> /\ doc.elem.kind \in {"attr", "css", "style"})
    => /\ StartsWith(doc.elem.value, ProxyPrefix) => RefIn(passes[1], doc.elem) = doc.elem.value
       /\ \A n \in 1..4 :
            StartsWith(RefIn(passes[n], doc.elem), ProxyPrefix)
              => RefIn(passes[n + 1], doc.elem) = RefIn(passes[n], doc.elem)

\* C4: a monitored attribute whose value is root-relative is sent, for page URL B, as
\* /api/proxy?url= followed by the percent-encoding of scheme(B)://host(B) and the
\* original value, and the decoded parameter is exactly that string.
C4_RootRelativeOnPageOrigin ==
  (/\ passes /= <<>> /\ doc.elem.kind = "attr"
   /\ doc.elem.value \in SingleValues /\ IsRootRelative(doc.elem.value))
    => /\ AttrValueIn(html, doc.elem.name)
            = ProxyPrefix \o encodeURIComponent(UrlBase(doc.url) \o doc.elem.value)
       /\ decodeURIComponent(ProxyParam(AttrValueIn(html, doc.elem.name)))
            = UrlBase(doc.url) \o doc.elem.value

\* the entry the srcset contract asks for in place of `entry` on the page at B
ExpectedSrcsetEntry(entry, B) ==
  Let(SplitWs(Trim(entry)), LAMBDA parts :
    IF StartsWith(parts[1], "http")
    THEN ProxyPrefix \o encodeURIComponent(parts[1]) \o " " \o parts[2]
    ELSE IF IsRootRelative(parts[1])
    THEN ProxyPrefix \o encodeURIComponent(UrlBase(B) \o parts[1]) \o " " \o parts[2]
    ELSE Trim(entry))

\* C5: a srcset list of `url descriptor` pairs is sent with as many entries in the
\* same order, each URL rewritten on its own and each descriptor verbatim after it.
C5_SrcsetEntriesRewrittenApart ==
  (/\ passes /= <<>> /\ doc.elem.kind = "attr" /\ doc.elem.name = "srcset"
   /\ doc.elem.value \in SrcsetLists(MaxEntries, ", ") \cup SrcsetLists(MaxEntries, ","))
    => Let(Split(doc.elem.value, ","), LAMBDA entries :
       Let(Split(AttrValueIn(html, "srcset"), ","), LAMBDA sent_ :
         /\ Len(sent_) = Len(entries)
         /\ \A k \in 1..Len(entries) :
              k <= Len(sent_) => Trim(sent_[k]) = ExpectedSrcsetEntry(entries[k], doc.url)))

\* the token the CSS contract asks for in place of url(q v q) on the page at B
ExpectedCssToken(v, q, B) ==
  IF v \in AbsoluteUrls THEN "url('" \o ProxyPrefix \o encodeURIComponent(v) \o "')"
  ELSE IF IsRootRelative(v)
  THEN "url('" \o ProxyPrefix \o encodeURIComponent(UrlBase(B) \o v) \o "')"
  ELSE "url(" \o q \o v \o q \o ")"

\* C6: a CSS url(...) token, in a <style> block or an inline style attribute, is
\* sent as url('/api/proxy?url=<encoded U>') for an absolute U, as
\* url('/api/proxy?url=<encoded page origin + P>') for a root-relative P, and
\* unchanged for any other content.
C6_CssUrlTokensProxiedOnce ==
  (passes /= <<>> /\ doc.elem.kind \in {"css", "style"})
    => CssTokenIn(html)
         = ExpectedCssToken(doc.elem.value,
                            IF doc.elem.kind = "css" THEN doc.elem.quote ELSE doc.elem.inner,
                            doc.url)

(***************************************************************************)
(* Claims C7 to C10: the relayed response, under Spec.                     *)
(***************************************************************************)
\* the handler has relayed the upstream response with res.send
Relayed == sent \in {"html", "buffer"}

\* C7 as stated: an upstream response whose content-type header does not contain
\* text/html, or which has no content-type header, is relayed with a body identical
\* to the upstream body.
C7_NonHtmlOrUntypedRelayedVerbatim ==
  (/\ Relayed
   /\ \/ "content-type" \notin DOMAIN upstream.headers
      \/ ~Includes(upstream.headers["content-type"], "text/html"))
    => resBody = upstream.body

\* C7 amended: an upstream response that carries a non-empty content-type header
\* without text/html in it is relayed by the non-HTML branch, with a body identical
\* to the upstream body.
C7_TypedNonHtmlRelayedVerbatim ==
  (/\ Relayed
   /\ "content-type" \in DOMAIN upstream.headers
   /\ upstream.headers["content-type"] /= ""
   /\ ~Includes(upstream.headers["content-type"], "text/html"))
    => sent = "buffer" /\ resBody = upstream.body

\* a style sheet holding a url() token the rewriter would have changed was relayed
C7_StyleSheetRelayed ==
  /\ sent = "buffer"
  /\ "content-type" \in DOMAIN upstream.headers
  /\ upstream.headers["content-type"] = "text/css"
  /\ Includes(upstream.body, "url(https://")
  /\ resBody = upstream.body

C9_OverridesHaveFixedValues ==
  Relayed
    => /\ \A k \in 1..Len(OverrideHeaders) :
            ToLowerCase(OverrideHeaders[k][1]) \in DOMAIN resHeaders
       /\ resHeaders["access-control-allow-origin"] = "*"
       /\ resHeaders["access-control-allow-methods"]
            = "GET, POST, PUT, DELETE, OPTIONS, HEAD, PATCH"
       /\ resHeaders["access-control-allow-headers"]
            = "Origin, X-Requested-With, Content-Type, Accept, Authorization, X-HTTP-Method-Override"
       /\ resHeaders["access-control-allow-credentials"] = "true"
       /\ resHeaders["x-frame-options"] = "ALLOWALL"
       /\ resHeaders["content-security-policy"] = OverrideHeaders[Len(OverrideHeaders)][2]
       /\ resHeaders["cache-control"] = "no-cache, no-store, must-revalidate"

\* an upstream response with its own cache-control, x-frame-options and
\* content-security-policy was relayed with the fixed values in their place
C9_UpstreamCacheControlOverridden ==
  /\ Relayed
  /\ {"cache-control", "x-frame-options"} \subseteq DOMAIN upstream.headers
  /\ upstream.headers["cache-control"] = "max-age=3600"
  /\ upstream.headers["x-frame-options"] = "DENY"
  /\ resHeaders["cache-control"] = "no-cache, no-store, must-revalidate"
  /\ resHeaders["x-frame-options"] = "ALLOWALL"

\* C10: a relayed response carries the upstream's status, non-2xx included.
C10_UpstreamStatusRelayed == Relayed => resStatus = upstream.status

(***************************************************************************)
(* Claims C11 to C16: validation, fetch, preflight and the outbound        *)
(* request, under Spec.                                                    *)
(***************************************************************************)
\* the last request went to the app.all handler (not to the preflight handler)
ProxyHandled == req.route = "/api/proxy" /\ req.method /= "OPTIONS"

\* C11: a request without the url parameter is answered 400 with the body
\* {"message":"URL parameter is required"}, one whose url does not parse after
\* normalisation is answered 400; neither dispatches a fetch nor reaches res.send.
C11_InvalidRequestsRejected ==
  (ProxyHandled /\ (req.urlParam = "" \/ ~ParseUrl(sanitizeUrl(req.urlParam)).ok))
    => /\ resStatus = 400
       /\ sent = "json"
       /\ outbound = <<>>
       /\ pc = "done"
       /\ req.urlParam = "" => resBody = "{\"message\":\"URL parameter is required\"}"

\* a request whose url is a scheme without a host was answered 400 without a fetch
C11_SchemeOnlyUrlRejected ==
  /\ ProxyHandled
  /\ req.urlParam = "https://"
  /\ resStatus = 400
  /\ resBody = "{\"message\":\"Invalid URL provided\"}"
  /\ outbound = <<>>

\* the url parameter of the last request passed both checks of the handler
Validated == ProxyHandled /\ req.urlParam /= "" /\ ParseUrl(sanitizeUrl(req.urlParam)).ok

\* C12: a validated request dispatches exactly one fetch and never a second one;
\* when the fetch rejects with cause c the response is 500 with the JSON body
\* {"message":"Failed to proxy the request","error":c} and the fetch log is unchanged.
C12_OneFetchFailureSurfaced ==
  /\ [](Len(outbound) <= 1 /\ (Validated => Len(outbound) = 1))
  /\ [][\A c \in FetchErrors : FetchRejects(c) =>
          /\ resStatus' = 500
          /\ sent' = "json"
          /\ resBody' = "{\"message\":\"Failed to proxy the request\",\"error\":\"" \o c \o "\"}"
          /\ outbound' = outbound
          /\ pc' = "done"]_vars

\* a fetch failed on name resolution and the 500 answer carries that cause
C12_DnsFailureAnswered ==
  /\ Validated
  /\ pc = "done"
  /\ Len(outbound) = 1
  /\ upstream = NoResponse
  /\ resStatus = 500
  /\ resBody = "{\"message\":\"Failed to proxy the request\",\"error\":\"getaddrinfo ENOTFOUND ex.com\"}"

(***************************************************************************)
(* Claim C13: the normalizer, under SpecNormalize.                         *)
(***************************************************************************)
\* input begins with one of the two schemes sanitizeUrl looks for
Schemed == StartsWith(input, "http://") \/ StartsWith(input, "https://")

\* what the claim says a normalizer returns for input
Prepended == IF Schemed THEN input ELSE "https://" \o input

\* C13 as stated: both copies return https:// + input for an input without
\* scheme, and that result parses as a URL; both return a schemed input unchanged.
C13_NormalizedAlwaysParses ==
  /\ serverUrl /= <<>> =>
       /\ serverUrl[1] = Prepended
       /\ ~Schemed => ParseUrl(serverUrl[1]).ok
  /\ clientUrl /= <<>> =>
       /\ clientUrl[1].isString
       /\ clientUrl[1].value = Prepended
       /\ ~Schemed => ParseUrl(clientUrl[1].value).ok

\* C13 amended: the server copy returns https:// + input for an input without
\* scheme and a schemed input unchanged, whether or not the result parses; the
\* client copy returns that same string when it parses and false when it does not.
C13_PrependedNotValidated ==
  /\ serverUrl /= <<>> => serverUrl[1] = Prepended
  /\ clientUrl /= <<>> =>
       IF ParseUrl(Prepended).ok
       THEN clientUrl[1].isString /\ clientUrl[1].value = Prepended
       ELSE ~clientUrl[1].isString

\* a host with a space was given the scheme by the server and refused by the client
C13_SpacedHostPrepended ==
  /\ input = "ex .com"
  /\ serverUrl = <<"https://ex .com">>
  /\ ~ParseUrl(serverUrl[1]).ok
  /\ clientUrl /= <<>>
  /\ ~clientUrl[1].isString

\* C14: every fetch a handler dispatches has a target that begins with http:// or
\* https:// and parses as a URL; a url parameter without scheme is fetched with
\* https:// in front.
C14_FetchTargetsSchemedAndParsed ==
  \A k \in 1..Len(outbound) :
    /\ StartsWith(outbound[k].url, "http://") \/ StartsWith(outbound[k].url, "https://")
    /\ ParseUrl(outbound[k].url).ok
    /\ ~(StartsWith(req.urlParam, "http://") \/ StartsWith(req.urlParam, "https://"))
         => outbound[k].url = "https://" \o req.urlParam

\* the last request was an OPTIONS request to /api/proxy
Preflighted == req.route = "/api/proxy" /\ req.method = "OPTIONS"

\* the CORS headers a relayed response carries stand on the response with the
\* same values
CorsHeadersAsRelayed ==
  \A k \in 1..5 :
    /\ ToLowerCase(OverrideHeaders[k][1]) \in DOMAIN resHeaders
    /\ resHeaders[ToLowerCase(OverrideHeaders[k][1])] = OverrideHeaders[k][2]

\* the proxy pipeline did not run: no url was computed, nothing was fetched
PipelineSkipped == url = "" /\ outbound = <<>> /\ upstream = NoResponse /\ pc = "done"

C16_BodyAndContentTypeForwarded ==
  (ProxyHandled /\ Len(outbound) = 1)
    => /\ outbound[1].method = req.method
       /\ IF req.method \in {"GET", "HEAD"}
          THEN outbound[1].body = ""
          ELSE /\ outbound[1].body = req.body
               /\ outbound[1].contentType = req.contentType

(***************************************************************************)
(* Claims C17 and C18: the bridge, under SpecBridge.                       *)
(***************************************************************************)
\* u is a URL of the proxy endpoint, written root-relative or with the proxy's origin
IsProxyUrl(u) == StartsWith(u, ProxyPrefix) \/ StartsWith(u, ProxyOrigin \o ProxyPrefix)

\* C17: the native open, fetch or window.open gets a target that already is a
\* /api/proxy?url= URL as it was passed, the bridge's own POST-form open included;
\* it gets any other absolute or root-relative target as /api/proxy?url= followed
\* by the percent-encoding of the absolute target.
C17_PatchedTargetsProxiedOnce ==
  native.api /= "" =>
    IF IsProxyUrl(native.asked) THEN native.url = native.asked
    ELSE (StartsWith(native.asked, "http") \/ StartsWith(native.asked, "/"))
           => /\ StartsWith(native.url, ProxyPrefix)
              /\ ParseUrl(decodeURIComponent(ProxyParam(native.url))).ok
              /\ From(decodeURIComponent(ProxyParam(native.url)),
                      Len(decodeURIComponent(ProxyParam(native.url))) - Len(native.asked) + 1)
                   = native.asked

\* href is a URL of the proxy's own /api/proxy endpoint
PointsAtProxy(href) == StartsWith(href, ProxyOrigin \o "/api/proxy")

\* C18: a click on an anchor whose href does not point at the proxy endpoint is
\* prevented and the frame navigates to /api/proxy?url= followed by the encoded
\* href; only a click on an anchor whose href points at the proxy endpoint is left
\* to navigate to the href.
C18_OnlyProxyAnchorsNavigate ==
  [][\A h \in AnchorHrefs \ {""} :
       ClickAnchor(h) =>
         IF PointsAtProxy(h)
         THEN ~click'.prevented /\ frameUrl' = h
         ELSE click'.prevented /\ frameUrl' = ProxyOrigin \o ProxyPrefix \o encodeURIComponent(h)]_vars

(***************************************************************************)
(* Claims C19 and C20: base tag and bridge injection, under SpecRewrite.   *)
(***************************************************************************)
\* how often text p stands in s
\* C19: a page with a <head> tag is sent with exactly one <base href="page URL">,
\* right after the opening head tag; a page without a <head> tag passes the step
\* unchanged and is sent without any base tag.
C19_BaseTagOnlyAfterHead ==
  passes /= <<>> =>
    IF doc.head
    THEN /\ OccurrencesOf(html, baseTag(doc.url)) = 1
         /\ Includes(html, "<head>" \o baseTag(doc.url))
    ELSE /\ passes[7] = passes[6]
         /\ ~Includes(html, "<base ")

\* C20: a page with </head> is sent as the outcome of the seven earlier passes with
\* the bridge script, letter for letter, inserted once right before the first
\* </head>; a page without </head> is sent as the outcome of those passes, without
\* the script.
C20_BridgeInsertedOnceUntouched ==
  passes /= <<>> =>
    IF Includes(passes[7], "</head>")
    THEN /\ html = SubSeq(passes[7], 1, IndexOf(passes[7], "</head>", 1) - 1)
                     \o enhancementScript \o From(passes[7], IndexOf(passes[7], "</head>", 1))
         /\ OccurrencesOf(html, enhancementScript) = 1
         /\ OccurrencesOf(html, "<script>window.addEventListener('load'") = 1
    ELSE /\ html = passes[7]
         /\ ~Includes(html, "window.addEventListener('load'")
         /\ passes[7] = BaseTagPass(LocationPass(passes[5]), doc.url)

\* a page whose own script the window.location pass changed was sent with the
\* bridge script unchanged before </head>
C20_PageScriptRewrittenBridgeIntact ==
  /\ passes /= <<>>
  /\ doc.head
  /\ doc.elem.kind = "script"
  /\ passes[6] /= passes[5]
  /\ Includes(html, enhancementScript \o "</head>")

(***************************************************************************)
(* Claim C21: the window.location pass, under SpecRewrite.                 *)
(***************************************************************************)
\* the call the pass writes in front of window.location

\* C21: the window.location pass ends, and its output holds as many navigate
\* prefixes as its input (and the upstream page) holds occurrences of
\* window.location, each standing right before one occurrence; the occurrences
\* themselves are not multiplied, so no replacement was prefixed again.
C21_EachLocationPrefixedOnce ==
  passes /= <<>> =>
    /\ OccurrencesOf(passes[6], NavigatePrefix) = OccurrencesOf(passes[5], LocationText)
    /\ OccurrencesOf(passes[6], NavigatePrefix \o LocationText)
         = OccurrencesOf(passes[5], LocationText)
    /\ OccurrencesOf(passes[6], LocationText) = OccurrencesOf(passes[5], LocationText)
    /\ OccurrencesOf(passes[5], LocationText)
         = OccurrencesOf(RenderPage(doc.head, doc.elem), LocationText)
    /\ OccurrencesOf(passes[5], NavigatePrefix) = 0

\* a page script with two occurrences of window.location got two prefixes
C21_TwoOccurrencesTwoPrefixes ==
  /\ passes /= <<>>
  /\ doc.elem.kind = "script"
  /\ OccurrencesOf(passes[5], LocationText) = 2
  /\ OccurrencesOf(passes[6], NavigatePrefix) = 2

(***************************************************************************)
(* Claims C22, C23, C27 and C30: the frame host, under SpecHost (C22 under *)
(* SpecHostLive).                                                          *)
(***************************************************************************)
\* C22: once the host shows a frame in the loading state, the loading state ends
\* (or the frame is closed), also when no message ever arrives: the fallback timer
\* of the last render expires and calls onLoad.
C22_LoadingEnds == (currentUrl /= "" /\ isLoading) ~> (~isLoading \/ currentUrl = "")

\* the timer ended the loading state after Home had rendered again as often as it may
C22_TimerEndedLoading ==
  /\ currentUrl /= ""
  /\ called.by = "timer"
  /\ ~isLoading
  /\ renders = MaxRerenders

\* the callback the claim assigns to a bridge string
ExpectedCallback(text) ==
  CASE text = "iframe:loaded" -> [fn |-> "onLoad", arg |-> "", by |-> "message"]
    [] text = "error:boom" -> [fn |-> "onError", arg |-> "boom", by |-> "message"]
    [] text = "error:" -> [fn |-> "onError", arg |-> "", by |-> "message"]
    [] text = "error:navigate:https://ex.com/" ->
         [fn |-> "onError", arg |-> "navigate:https://ex.com/", by |-> "message"]
    [] text = "error:iframe:loaded" ->
         [fn |-> "onError", arg |-> "iframe:loaded", by |-> "message"]
    [] OTHER -> NoCallback

\* C23: the listener calls onLoad only for the string iframe:loaded, onError with
\* exactly m for the string error: followed by m, and nothing for a navigate:
\* string, another string or a message that is no string; the host's state changes
\* accordingly and not otherwise.
C23_OneEventPerMessage ==
  [][\A d \in HostMessages :
       MessageDelivered(d) =>
         /\ called' = (IF d.isString THEN ExpectedCallback(d.text) ELSE NoCallback)
         /\ called'.fn = "onLoad"
              => ~isLoading' /\ UNCHANGED <<currentUrl, isError, errorMessage>>
         /\ called'.fn = "onError"
              => ~isLoading' /\ isError' /\ errorMessage' = called'.arg /\ UNCHANGED currentUrl
         /\ called'.fn = "none"
              => UNCHANGED <<currentUrl, isLoading, isError, errorMessage>>]_vars

\* an error whose message is the loaded sentinel was taken as an error
C23_ErrorCarryingSentinel ==
  /\ called = [fn |-> "onError", arg |-> "iframe:loaded", by |-> "message"]
  /\ isError
  /\ errorMessage = "iframe:loaded"

\* C27: after Try Again was pressed in the error state, isError is false.
C27_TryAgainClearsError == called.by = "tryAgain" => ~isError

\* C30: at most one listener and one pending timer of ProxyFrame exist, they belong
\* to the effect of the last render and there is none while no frame is mounted;
\* while the frame stays closed the host's isLoading, isError and errorMessage do
\* not change.
C30_OneListenerOneTimer ==
  /\ [](/\ Cardinality(listeners) <= 1
        /\ Cardinality(timers) <= 1
        /\ listeners \subseteq {effectId}
        /\ timers \subseteq {effectId}
        /\ currentUrl = "" => listeners = {} /\ timers = {})
  /\ [][(currentUrl = "" /\ currentUrl' = "")
          => UNCHANGED <<isLoading, isError, errorMessage, called>>]_vars

\* a frame was closed while it was loading, after its effect had been set up anew
C30_ClosedWhileLoading ==
  /\ currentUrl = ""
  /\ isLoading
  /\ effectId > 1
  /\ listeners = {}
  /\ timers = {}

(***************************************************************************)
(* Claim C29: the error response after a failed body read, under Spec.     *)
(***************************************************************************)
\* the 500 JSON response of a request whose upstream fetch had resolved
BodyReadFailed == pc = "done" /\ sent = "json" /\ resStatus = 500 /\ upstream /= NoResponse

\* the 500 JSON response of a request whose upstream fetch was rejected
FetchFailed == pc = "done" /\ sent = "json" /\ resStatus = 500 /\ upstream = NoResponse

\* C29: the 500 JSON response after a failed body read carries no header copied
\* from the upstream response and no override, only the content type of the JSON
\* body, as the 500 response after a failed fetch does.
C29_ErrorHeadersBare == BodyReadFailed => DOMAIN resHeaders \subseteq {"content-type"}

(***************************************************************************)
(* Claim C25: the root-relative pass and protocol-relative values, under   *)
(* SpecRewrite.                                                            *)
(***************************************************************************)
\* C25: the root-relative pass leaves a monitored attribute whose value begins
\* with // as it found it.
C25_ProtocolRelativeUntouched ==
  (passes /= <<>> /\ doc.elem.kind = "attr" /\ StartsWith(doc.elem.value, "//"))
    => passes[3] = passes[2]

(***************************************************************************)
(* Claim C28: the messages of a submitted form, under SpecForm.            *)
(***************************************************************************)
\* the positions of the log at which a message was posted to the parent
PostsOf(log) == {k \in 1..Len(log) : log[k].op = "post"}

\* the positions at which the completion handler itself posted
HandlerPostsOf(log) == {k \in PostsOf(log) : log[k].by = "handler"}

Succeeded(x) == x.readyState = 4 /\ x.status >= 200 /\ x.status <= 399

\* C28 as stated: a completed request of a form has posted exactly one message.
C28_ExactlyOneMessage ==
  \A i \in XhrIds : xhrs[i].readyState = 4 => Cardinality(PostsOf(xhrs[i].log)) = 1

\* C28: a request of a form posts nothing before readyState 4.  At readyState 4 its
\* handler posts exactly one message of its own: with a status in 200..399 it
\* replaces the document, evaluates the scripts of the response and posts
\* iframe:loaded last, and every other message is a navigate: that an evaluated
\* script posted; with another status it posts the failure with that status and
\* nothing else, and the document stays.  A GET form posts nothing and navigates to
\* the proxy URL of its action with the fields appended after ? or, when the action
\* has a query, after &.
C28_OneHandlerMessage ==
  /\ [](\A i \in XhrIds :
          /\ xhrs[i].readyState < 4 => xhrs[i].log = <<>>
          /\ xhrs[i].readyState = 4 => Cardinality(HandlerPostsOf(xhrs[i].log)) = 1
          /\ Succeeded(xhrs[i])
               => /\ xhrs[i].log[1].op = "replace"
                  /\ xhrs[i].log[Len(xhrs[i].log)]
                       = [op |-> "post", text |-> "iframe:loaded", by |-> "handler"]
                  /\ \A k \in 2..(Len(xhrs[i].log) - 1) :
                       xhrs[i].log[k] = [op |-> "post", text |-> "navigate:", by |-> "script"]
                  /\ frameDoc = "response"
          /\ (xhrs[i].readyState = 4 /\ ~Succeeded(xhrs[i]))
               => /\ Len(xhrs[i].log) = 1
                  /\ xhrs[i].log[1].op = "post"
                  /\ xhrs[i].log[1].text
                       = (CASE xhrs[i].status = 0 -> "error:Form submission failed with status 0"
                            [] xhrs[i].status = 199 -> "error:Form submission failed with status 199"
                            [] xhrs[i].status = 400 -> "error:Form submission failed with status 400"
                            [] xhrs[i].status = 500 -> "error:Form submission failed with status 500"
                            [] OTHER -> "error:Form submission failed with status "
                                          \o ToString(xhrs[i].status)))
  /\ [](frameDoc = "response" => \E i \in XhrIds : Succeeded(xhrs[i]))
  /\ [][\A a \in FormActions, m \in {"", "get"}, q \in FormQueries :
          SubmitForm(a, m, q)
            => /\ xhrs' = NoXhrs
               /\ frameUrl' = ProxyOrigin \o "/api/proxy?url="
                                \o encodeURIComponent(
                                     (IF a = "" THEN frameUrl ELSE a)
                                     \o (IF a = "https://ex.com/search" THEN "?" ELSE "&") \o q)]_vars

\* one request failed with status 500 and posted the failure; another succeeded,
\* its response's script posted navigate: and the handler posted iframe:loaded
C28_FailureThenLoadedAfterScript ==
  /\ xhrs[1].readyState = 4
  /\ xhrs[1].status = 500
  /\ xhrs[1].log = <<[op |-> "post", text |-> "error:Form submission failed with status 500",
                      by |-> "handler"]>>
  /\ Succeeded(xhrs[2])
  /\ Len(xhrs[2].log) = 3
  /\ frameDoc = "response"

(***************************************************************************)
(* Claims C24 and C26: the store, under SpecStoreSequential and SpecStore. *)
(***************************************************************************)
\* no two records have the same url
UrlsUnique == \A i, j \in 1..Len(rows) : rows[i].url = rows[j].url => i = j

\* C24: with one POST after the other the table has at most one record for each
\* normalised URL and every stored url has a scheme.  A POST whose url has no
\* record inserts one, for foo.com without a title with the url https://foo.com
\* and the title foo.com, and returns it.  A POST whose url has a record inserts
\* nothing, sets a later visited_at on that record, leaves the other records as
\* they were and returns that record as the select read it, with the visited_at
\* from before the update.
C24_OneRecordPerUrl ==
  /\ [](UrlsUnique
        /\ \A k \in 1..Len(rows) : StartsWith(rows[k].url, "http://")
                                     \/ StartsWith(rows[k].url, "https://"))
  /\ [][\A c \in Clients :
          PostWrites(c) =>
            IF \E k \in 1..Len(rows) : rows[k].url = posts[c].search.url
            THEN /\ Len(rows') = Len(rows)
                 /\ \A k \in 1..Len(rows) :
                      IF rows[k].url = posts[c].search.url
                      THEN /\ rows'[k] = [rows[k] EXCEPT !.visited_at = rows'[k].visited_at]
                           /\ rows'[k].visited_at > rows[k].visited_at
                           /\ posts'[c].response = rows[k]
                      ELSE rows'[k] = rows[k]
            ELSE /\ Len(rows') = Len(rows) + 1
                 /\ SubSeq(rows', 1, Len(rows)) = rows
                 /\ posts'[c].response = rows'[Len(rows')]
                 /\ rows'[Len(rows')].id \notin {rows[k].id : k \in 1..Len(rows)}
                 /\ posts[c].body = [url |-> "foo.com", title |-> ""]
                      => /\ rows'[Len(rows')].url = "https://foo.com"
                         /\ rows'[Len(rows')].title = "foo.com"]_vars

\* foo.com was posted, then https://foo.com: one record with the title foo.com,
\* visited again, and the second response carries the first visit's time
C24_SecondPostUpdated ==
  /\ Len(rows) = 1
  /\ rows[1].url = "https://foo.com"
  /\ rows[1].title = "foo.com"
  /\ rows[1].visited_at = 2
  /\ posts[2].pc = "done"
  /\ posts[2].body.url = "https://foo.com"
  /\ posts[2].response = [rows[1] EXCEPT !.visited_at = 1]

\* C26: under any interleaving of the requests no two records have the same url.
C26_UrlsUniqueConcurrently == UrlsUnique

====
